---- MODULE Spec2Model ----
(***************************************************************************)
(* A model of the HTML ingestion pipeline of wowkster/bowser:               *)
(*   lib/html/src/character_encoding.rs  the encoding registry and the      *)
(*                                       UTF-8 decoder                      *)
(*   lib/html/src/io_queue.rs            the peekable byte cursor           *)
(*   lib/html/src/prescan.rs             the byte-level encoding pre-scan   *)
(*   lib/html/src/parser.rs              encoding resolution, decode_char,  *)
(*                                       change_encoding                    *)
(*   lib/html/src/lexer.rs, lib.rs       the lexer and parse_html           *)
(* Bytes are integers 0..255.  Rust strings are TLA+ strings where only     *)
(* their text matters (labels, lexer input) and sequences of character      *)
(* codes where the code indexes into them (attribute values).               *)
(***************************************************************************)
EXTENDS Integers, Sequences, FiniteSets, TLC

VARIABLES
    \* registry (character_encoding.rs): one label on its way through
    \* from_str and to_string
    reg_pc, reg_label, reg_encoding, reg_name, reg_reparsed,
    \* IoQueue (io_queue.rs)
    \* source is what the reader under the cursor holds in all, from its
    \* first byte on; the cursor never changes it
    source, stream, peeked, bytes_read,
    \* HtmlParser (parser.rs)
    \* sniffed is what the sniffing step of try_parse did, decoded the
    \* characters decode_char has returned
    character_encoding, encoding_confidence, read_bytes, parser_pc, sniffed, decoded,
    \* Utf8Decoder::decode called on the cursor directly
    dec_pc, dec_input, dec_results,
    \* Lexer (lexer.rs) and the token loop of parse_html (lib.rs)
    lexer, tokens, lex_pc, last_token,
    \* a caller of IoQueue: the bytes next_byte has returned to it, and the
    \* operation it called last with what the operation returned
    delivered, last_op,
    \* HtmlPreScanner::pre_scan_byte_stream taken loop turn by loop turn:
    \* scanner is the HtmlPreScanner, scan_meta the locals of the meta branch,
    \* scan_ret what the function returned, scan_last the step taken last
    scanner, scan_pc, scan_meta, scan_ret, scan_last

regVars    == <<reg_pc, reg_label, reg_encoding, reg_name, reg_reparsed>>
ioVars     == <<source, stream, peeked, bytes_read>>
parserVars ==
    <<character_encoding, encoding_confidence, read_bytes, parser_pc, sniffed, decoded>>
decVars    == <<dec_pc, dec_input, dec_results>>
lexVars    == <<lexer, tokens, lex_pc, last_token>>
opVars     == <<delivered, last_op>>
scanVars   == <<scanner, scan_pc, scan_meta, scan_ret, scan_last>>
vars       == <<regVars, ioVars, parserVars, decVars, lexVars, opVars, scanVars>>

-----------------------------------------------------------------------------
(* Characters.  Chr and Ord convert between a character code and the        *)
(* one-character string; only the codes a TLA+ string can hold are mapped.  *)

\* The characters of codes 32..95 and 97..126 (a TLA+ string cannot hold the
\* character of code 96).
PrintableLo ==
    " !\"#$%&'()*+,-./0123456789:;<=>?@ABCDEFGHIJKLMNOPQRSTUVWXYZ[\\]^_"

PrintableHi == "abcdefghijklmnopqrstuvwxyz{|}~"

CharAt(s, i) == SubSeq(s, i, i)

TextCodes == (32..95) \cup (97..126) \cup {9, 10, 12, 13}

ChrTable ==
    [b \in TextCodes |->
        CASE b = 9  -> "\t"
          [] b = 10 -> "\n"
          [] b = 12 -> "\f"
          [] b = 13 -> "\r"
          [] b < 96 -> CharAt(PrintableLo, b - 31)
          [] OTHER  -> CharAt(PrintableHi, b - 96)]

Chr(b) == ChrTable[b]

Chars == {ChrTable[b] : b \in TextCodes}

OrdTable == [c \in Chars |-> CHOOSE b \in TextCodes : ChrTable[b] = c]

Ord(c) == OrdTable[c]

\* The bytes of an ASCII string.
Bytes(s) == [i \in 1..Len(s) |-> Ord(CharAt(s, i))]

RECURSIVE StrOf(_)
\* The string whose characters have the codes cs (all of them in TextCodes).
StrOf(cs) == IF cs = <<>> THEN "" ELSE Chr(Head(cs)) \o StrOf(Tail(cs))

\* u8/char::to_ascii_lowercase and to_ascii_uppercase on a character code
to_ascii_lowercase(b) == IF b \in 65..90 THEN b + 32 ELSE b

to_ascii_uppercase(b) == IF b \in 97..122 THEN b - 32 ELSE b

\* str::to_ascii_lowercase / to_ascii_uppercase
str_to_ascii_lowercase(s) == StrOf([i \in 1..Len(s) |-> to_ascii_lowercase(Ord(CharAt(s, i)))])

str_to_ascii_uppercase(s) == StrOf([i \in 1..Len(s) |-> to_ascii_uppercase(Ord(CharAt(s, i)))])

-----------------------------------------------------------------------------
(* character_encoding.rs: the registry                                      *)

\* Err(()) of from_str
Err == "Err"

CharacterEncoding ==
    { "Utf8", "IBM866", "ISO8859_2", "ISO8859_3", "ISO8859_4", "ISO8859_5",
      "ISO8859_6", "ISO8859_7", "ISO8859_8", "ISO8859_8I", "ISO8859_10",
      "ISO8859_13", "ISO8859_14", "ISO8859_15", "ISO8859_16", "KOI8R",
      "KOI8U", "Macintosh", "Windows874", "Windows1250", "Windows1251",
      "Windows1252", "Windows1253", "Windows1254", "Windows1255",
      "Windows1256", "Windows1257", "Windows1258", "XMacCyrillic", "GBK",
      "GB18030", "Big5", "EucJp", "ISO2022Jp", "ShiftJIS", "EucKr",
      "Replacement", "Utf16BE", "Utf16LE", "XUserDefined" }

\* impl FromStr for CharacterEncoding: the match compares s as it is given
from_str(s) ==
    CASE s \in {"unicode-1-1-utf-8", "unicode11utf8", "unicode20utf8", "utf-8",
                 "utf8", "x-unicode20utf8"} -> "Utf8"
      [] s \in {"866", "cp866", "csibm866", "ibm866"} -> "IBM866"
      [] s \in {"csisolatin2", "iso-8859-2", "iso-ir-101", "iso8859-2", "iso88592",
                 "iso_8859-2", "iso_8859-2:1987", "l2", "latin2"} -> "ISO8859_2"
      [] s \in {"csisolatin3", "iso-8859-3", "iso-ir-109", "iso8859-3", "iso88593",
                 "iso_8859-3", "iso_8859-3:1988", "l3", "latin3"} -> "ISO8859_3"
      [] s \in {"csisolatin4", "iso-8859-4", "iso-ir-110", "iso8859-4", "iso88594",
                 "iso_8859-4", "iso_8859-4:1988", "l4", "latin4"} -> "ISO8859_4"
      [] s \in {"csisolatincyrillic", "cyrillic", "iso-8859-5", "iso-ir-144",
                 "iso8859-5", "iso88595", "iso_8859-5", "iso_8859-5:1988"} -> "ISO8859_5"
      [] s \in {"arabic", "asmo-708", "csiso88596e", "csiso88596i",
                 "csisolatinarabic", "ecma-114", "iso-8859-6", "iso-8859-6-e",
                 "iso-8859-6-i", "iso-ir-127", "iso8859-6", "iso88596", "iso_8859-6",
                 "iso_8859-6:1987"} -> "ISO8859_6"
      [] s \in {"csisolatingreek", "ecma-118", "elot_928", "greek", "greek8",
                 "iso-8859-7", "iso-ir-126", "iso8859-7", "iso88597", "iso_8859-7",
                 "iso_8859-7:1987", "sun_eu_greek"} -> "ISO8859_7"
      [] s \in {"csiso88598e", "csisolatinhebrew", "hebrew", "iso-8859-8",
                 "iso-8859-8-e", "iso-ir-138", "iso8859-8", "iso88598", "iso_8859-8",
                 "iso_8859-8:1988", "visual"} -> "ISO8859_8"
      [] s \in {"csiso88598i", "iso-8859-8-i", "logical"} -> "ISO8859_8I"
      [] s \in {"csisolatin6", "iso-8859-10", "iso-ir-157", "iso8859-10",
                 "iso885910", "l6", "latin6"} -> "ISO8859_10"
      [] s \in {"iso-8859-13", "iso8859-13", "iso885913"} -> "ISO8859_13"
      [] s \in {"iso-8859-14", "iso8859-14", "iso885914"} -> "ISO8859_14"
      [] s \in {"csisolatin9", "iso-8859-15", "iso8859-15", "iso885915",
                 "iso_8859-15", "l9"} -> "ISO8859_15"
      [] s \in {"iso-8859-16"} -> "ISO8859_16"
      [] s \in {"cskoi8r", "koi", "koi8", "koi8-r", "koi8_r"} -> "KOI8R"
      [] s \in {"koi8-ru", "koi8-u"} -> "KOI8U"
      [] s \in {"csmacintosh", "mac", "macintosh", "x-mac-roman"} -> "Macintosh"
      [] s \in {"dos-874", "iso-8859-11", "iso8859-11", "iso885911", "tis-620",
                 "windows-874"} -> "Windows874"
      [] s \in {"cp1250", "windows-1250", "x-cp1250"} -> "Windows1250"
      [] s \in {"cp1251", "windows-1251", "x-cp1251"} -> "Windows1251"
      [] s \in {"ansi_x3.4-1968", "ascii", "cp1252", "cp819", "csisolatin1",
                 "ibm819", "iso-8859-1", "iso-ir-100", "iso8859-1", "iso88591",
                 "iso_8859-1", "iso_8859-1:1987", "l1", "latin1", "us-ascii",
                 "windows-1252", "x-cp1252"} -> "Windows1252"
      [] s \in {"cp1253", "windows-1253", "x-cp1253"} -> "Windows1253"
      [] s \in {"cp1254", "csisolatin5", "iso-8859-9", "iso-ir-148", "iso8859-9",
                 "iso88599", "iso_8859-9", "iso_8859-9:1989", "l5", "latin5",
                 "windows-1254", "x-cp1254"} -> "Windows1254"
      [] s \in {"cp1255", "windows-1255", "x-cp1255"} -> "Windows1255"
      [] s \in {"cp1256", "windows-1256", "x-cp1256"} -> "Windows1256"
      [] s \in {"cp1257", "windows-1257", "x-cp1257"} -> "Windows1257"
      [] s \in {"cp1258", "windows-1258", "x-cp1258"} -> "Windows1258"
      [] s \in {"x-mac-cyrillic", "x-mac-ukrainian"} -> "XMacCyrillic"
      [] s \in {"chinese", "csgb2312", "csiso58gb231280", "gb2312", "gb_2312",
                 "gb_2312-80", "gbk", "iso-ir-58", "x-gbk"} -> "GBK"
      [] s \in {"gb18030"} -> "GB18030"
      [] s \in {"big5", "big5-hkscs", "cn-big5", "csbig5", "x-x-big5"} -> "Big5"
      [] s \in {"cseucpkdfmtjapanese", "euc-jp", "x-euc-jp"} -> "EucJp"
      [] s \in {"csiso2022jp", "iso-2022-jp"} -> "ISO2022Jp"
      [] s \in {"csshiftjis", "ms932", "ms_kanji", "shift-jis", "shift_jis", "sjis",
                 "windows-31j", "x-sjis"} -> "ShiftJIS"
      [] s \in {"cseuckr", "csksc56011987", "euc-kr", "iso-ir-149", "korean",
                 "ks_c_5601-1987", "ks_c_5601-1989", "ksc5601", "ksc_5601",
                 "windows-949"} -> "EucKr"
      [] s \in {"csiso2022kr", "hz-gb-2312", "iso-2022-cn", "iso-2022-cn-ext",
                 "iso-2022-kr", "replacement"} -> "Replacement"
      [] s \in {"unicodefffe", "utf-16be"} -> "Utf16BE"
      [] s \in {"csunicode", "iso-10646-ucs-2", "ucs-2", "unicode", "unicodefeff",
                 "utf-16", "utf-16le"} -> "Utf16LE"
      [] s \in {"x-user-defined"} -> "XUserDefined"
      [] OTHER -> Err

\* impl ToString for CharacterEncoding
to_string(e) ==
    CASE e = "Utf8" -> "UTF-8"
      [] e = "IBM866" -> "IBM866"
      [] e = "ISO8859_2" -> "ISO-8859-2"
      [] e = "ISO8859_3" -> "ISO-8859-3"
      [] e = "ISO8859_4" -> "ISO-8859-4"
      [] e = "ISO8859_5" -> "ISO-8859-5"
      [] e = "ISO8859_6" -> "ISO-8859-6"
      [] e = "ISO8859_7" -> "ISO-8859-7"
      [] e = "ISO8859_8" -> "ISO-8859-8"
      [] e = "ISO8859_8I" -> "ISO-8859-8-I"
      [] e = "ISO8859_10" -> "ISO-8859-10"
      [] e = "ISO8859_13" -> "ISO-8859-13"
      [] e = "ISO8859_14" -> "ISO-8859-14"
      [] e = "ISO8859_15" -> "ISO-8859-15"
      [] e = "ISO8859_16" -> "ISO-8859-16"
      [] e = "KOI8R" -> "KOI8-R"
      [] e = "KOI8U" -> "KOI8-U"
      [] e = "Macintosh" -> "macintosh"
      [] e = "Windows874" -> "windows-874"
      [] e = "Windows1250" -> "windows-1250"
      [] e = "Windows1251" -> "windows-1251"
      [] e = "Windows1252" -> "windows-1252"
      [] e = "Windows1253" -> "windows-1253"
      [] e = "Windows1254" -> "windows-1254"
      [] e = "Windows1255" -> "windows-1255"
      [] e = "Windows1256" -> "windows-1256"
      [] e = "Windows1257" -> "windows-1257"
      [] e = "Windows1258" -> "windows-1258"
      [] e = "XMacCyrillic" -> "x-mac-cyrillic"
      [] e = "GBK" -> "GBK"
      [] e = "GB18030" -> "gb18030"
      [] e = "Big5" -> "Big5"
      [] e = "EucJp" -> "EUC-JP"
      [] e = "ISO2022Jp" -> "ISO-2022-JP"
      [] e = "ShiftJIS" -> "Shift_JIS"
      [] e = "EucKr" -> "EUC-KR"
      [] e = "Replacement" -> "replacement"
      [] e = "Utf16BE" -> "UTF-16BE"
      [] e = "Utf16LE" -> "UTF-16LE"
      [] e = "XUserDefined" -> "x-user-defined"

\* The label strings of the match arms of from_str (lines 57..124), the
\* labels the registry documents.
TableLabels ==
    { "unicode-1-1-utf-8", "unicode11utf8", "unicode20utf8", "utf-8", "utf8",
      "x-unicode20utf8", "866", "cp866", "csibm866", "ibm866", "csisolatin2",
      "iso-8859-2", "iso-ir-101", "iso8859-2", "iso88592", "iso_8859-2",
      "iso_8859-2:1987", "l2", "latin2", "csisolatin3", "iso-8859-3",
      "iso-ir-109", "iso8859-3", "iso88593", "iso_8859-3", "iso_8859-3:1988",
      "l3", "latin3", "csisolatin4", "iso-8859-4", "iso-ir-110", "iso8859-4",
      "iso88594", "iso_8859-4", "iso_8859-4:1988", "l4", "latin4",
      "csisolatincyrillic", "cyrillic", "iso-8859-5", "iso-ir-144",
      "iso8859-5", "iso88595", "iso_8859-5", "iso_8859-5:1988", "arabic",
      "asmo-708", "csiso88596e", "csiso88596i", "csisolatinarabic",
      "ecma-114", "iso-8859-6", "iso-8859-6-e", "iso-8859-6-i", "iso-ir-127",
      "iso8859-6", "iso88596", "iso_8859-6", "iso_8859-6:1987",
      "csisolatingreek", "ecma-118", "elot_928", "greek", "greek8",
      "iso-8859-7", "iso-ir-126", "iso8859-7", "iso88597", "iso_8859-7",
      "iso_8859-7:1987", "sun_eu_greek", "csiso88598e", "csisolatinhebrew",
      "hebrew", "iso-8859-8", "iso-8859-8-e", "iso-ir-138", "iso8859-8",
      "iso88598", "iso_8859-8", "iso_8859-8:1988", "visual", "csiso88598i",
      "iso-8859-8-i", "logical", "csisolatin6", "iso-8859-10", "iso-ir-157",
      "iso8859-10", "iso885910", "l6", "latin6", "iso-8859-13", "iso8859-13",
      "iso885913", "iso-8859-14", "iso8859-14", "iso885914", "csisolatin9",
      "iso-8859-15", "iso8859-15", "iso885915", "iso_8859-15", "l9",
      "iso-8859-16", "cskoi8r", "koi", "koi8", "koi8-r", "koi8_r", "koi8-ru",
      "koi8-u", "csmacintosh", "mac", "macintosh", "x-mac-roman", "dos-874",
      "iso-8859-11", "iso8859-11", "iso885911", "tis-620", "windows-874",
      "cp1250", "windows-1250", "x-cp1250", "cp1251", "windows-1251",
      "x-cp1251", "ansi_x3.4-1968", "ascii", "cp1252", "cp819",
      "csisolatin1", "ibm819", "iso-8859-1", "iso-ir-100", "iso8859-1",
      "iso88591", "iso_8859-1", "iso_8859-1:1987", "l1", "latin1",
      "us-ascii", "windows-1252", "x-cp1252", "cp1253", "windows-1253",
      "x-cp1253", "cp1254", "csisolatin5", "iso-8859-9", "iso-ir-148",
      "iso8859-9", "iso88599", "iso_8859-9", "iso_8859-9:1989", "l5",
      "latin5", "windows-1254", "x-cp1254", "cp1255", "windows-1255",
      "x-cp1255", "cp1256", "windows-1256", "x-cp1256", "cp1257",
      "windows-1257", "x-cp1257", "cp1258", "windows-1258", "x-cp1258",
      "x-mac-cyrillic", "x-mac-ukrainian", "chinese", "csgb2312",
      "csiso58gb231280", "gb2312", "gb_2312", "gb_2312-80", "gbk",
      "iso-ir-58", "x-gbk", "gb18030", "big5", "big5-hkscs", "cn-big5",
      "csbig5", "x-x-big5", "cseucpkdfmtjapanese", "euc-jp", "x-euc-jp",
      "csiso2022jp", "iso-2022-jp", "csshiftjis", "ms932", "ms_kanji",
      "shift-jis", "shift_jis", "sjis", "windows-31j", "x-sjis", "cseuckr",
      "csksc56011987", "euc-kr", "iso-ir-149", "korean", "ks_c_5601-1987",
      "ks_c_5601-1989", "ksc5601", "ksc_5601", "windows-949", "csiso2022kr",
      "hz-gb-2312", "iso-2022-cn", "iso-2022-cn-ext", "iso-2022-kr",
      "replacement", "unicodefffe", "utf-16be", "csunicode",
      "iso-10646-ucs-2", "ucs-2", "unicode", "unicodefeff", "utf-16",
      "utf-16le", "x-user-defined" }

-----------------------------------------------------------------------------
(* io_queue.rs: IoQueue.  A cursor is the record                            *)
(*   [stream, peeked, bytes_read]                                           *)
(* stream holds the bytes the source has not handed out yet; a read of k    *)
(* bytes takes min(k, Len(stream)) of them, as BufReader does over a source *)
(* held in memory.  Every operation returns the cursor it leaves behind     *)
(* (the RefCell fields change under &self) and its return value.            *)

\* Option::None for a byte or a character code
None == -1

Min(a, b) == IF a < b THEN a ELSE b

\* IoQueue::new
IoQueue_new(bytes) == [stream |-> bytes, peeked |-> <<>>, bytes_read |-> 0]

\* IoQueue::next_byte (and Iterator::next, which calls it)
next_byte(q) ==
    IF q.peeked # <<>>
    THEN [ret |-> Head(q.peeked), q |-> [q EXCEPT !.peeked = Tail(q.peeked)]]
    ELSE IF q.stream = <<>>
    THEN [ret |-> None, q |-> q]
    ELSE [ret |-> Head(q.stream),
          q   |-> [q EXCEPT !.stream = Tail(q.stream), !.bytes_read = @ + 1]]

\* peek_nth with a short read thrown away instead of being buffered
peek_nth_dropping(q, n) ==
    IF Len(q.peeked) > n
    THEN [ret |-> q.peeked[n + 1], q |-> q]
    ELSE LET chars_to_peek == n + 1 - Len(q.peeked)
             bytes_read_   == Min(chars_to_peek, Len(q.stream))
             taken         == [q EXCEPT !.stream = SubSeq(@, bytes_read_ + 1, Len(@))]
         IN  IF bytes_read_ < chars_to_peek
             THEN [ret |-> None, q |-> taken]
             ELSE [ret |-> q.stream[chars_to_peek],
                   q   |-> [taken EXCEPT
                              !.peeked = @ \o SubSeq(q.stream, 1, bytes_read_),
                              !.bytes_read = @ + bytes_read_]]

\* IoQueue::peek_nth
peek_nth(q, n) ==
    IF Len(q.peeked) > n
    THEN [ret |-> q.peeked[n + 1], q |-> q]
    ELSE LET chars_to_peek == n + 1 - Len(q.peeked)
             bytes_read_   == Min(chars_to_peek, Len(q.stream))
             pushed        == [q EXCEPT
                                 !.peeked = @ \o SubSeq(q.stream, 1, bytes_read_),
                                 !.stream = SubSeq(@, bytes_read_ + 1, Len(@))]
         IN  IF bytes_read_ < chars_to_peek
             THEN [ret |-> None, q |-> pushed]
             ELSE [ret |-> pushed.peeked[n + 1],
                   q   |-> [pushed EXCEPT !.bytes_read = @ + bytes_read_]]

\* IoQueue::peek_max: peek_nth(n) for n = 0, 1, ... up to max, stopping at
\* the first None.  Each call past the peek buffer reads one byte, and the
\* call that returns None reads none, so the loop leaves the cursor as the
\* peek of the last index that has a byte leaves it.
peek_max(q, max) ==
    LET n == Min(max, Len(q.peeked) + Len(q.stream))
    IN  IF n = 0 THEN q ELSE peek_nth(q, n - 1).q

\* IoQueue::peek_len
peek_len(q) == Len(q.peeked)

\* peek that hands out the byte it read without buffering it
IoQueue_peek_unbuffered(q) ==
    IF q.peeked # <<>> THEN [ret |-> Head(q.peeked), q |-> q]
    ELSE IF q.stream = <<>> THEN [ret |-> None, q |-> q]
    ELSE [ret |-> Head(q.stream),
          q   |-> [q EXCEPT !.stream = Tail(q.stream), !.bytes_read = @ + 1]]

\* IoQueue::peek
IoQueue_peek(q) ==
    IF q.peeked # <<>> THEN [ret |-> Head(q.peeked), q |-> q]
    ELSE IF q.stream = <<>> THEN [ret |-> None, q |-> q]
    ELSE [ret |-> Head(q.stream),
          q   |-> [q EXCEPT !.stream = Tail(q.stream),
                            !.peeked = Append(@, Head(q.stream)),
                            !.bytes_read = @ + 1]]

RECURSIVE peek_arr_from(_, _, _, _)
\* the loop of peek_arr, with i and res as they stand
peek_arr_from(q, n, i, res) ==
    LET r == peek_nth(q, i)
    IN  IF r.ret = None THEN [ret |-> res, q |-> r.q]
        ELSE IF i >= n THEN [ret |-> Append(res, r.ret), q |-> r.q]
        ELSE peek_arr_from(r.q, n, i + 1, Append(res, r.ret))

\* IoQueue::peek_arr
IoQueue_peek_arr(q, n) == peek_arr_from(q, n, 0, <<>>)

\* is_some() of a lookahead
IsSomeByte(r) == [ret |-> r.ret # None, q |-> r.q]

\* IoQueue::has_next
IoQueue_has_next(q) == IsSomeByte(IoQueue_peek(q))

\* IoQueue::has_next_nth
IoQueue_has_next_nth(q, n) == IsSomeByte(peek_nth(q, n))

RECURSIVE contains_bytes_from(_, _, _, _)
\* the loop of IoQueue::contains_bytes from index i on, with the cursor it
\* leaves
contains_bytes_from(q, start_pos, bytes, i) ==
    LET r == peek_nth(q, start_pos + i)
    IN  IF i >= Len(bytes) THEN [ret |-> TRUE, q |-> q]
        ELSE IF r.ret = None \/ r.ret # bytes[i + 1] THEN [ret |-> FALSE, q |-> r.q]
        ELSE contains_bytes_from(r.q, start_pos, bytes, i + 1)

RECURSIVE matches_sequence_from(_, _, _, _)
\* the loop of IoQueue::matches_sequence from index i on, with the cursor it
\* leaves
matches_sequence_from(q, start_pos, sequence, i) ==
    LET r == peek_nth(q, start_pos + i)
    IN  IF i >= Len(sequence) THEN [ret |-> TRUE, q |-> q]
        ELSE IF r.ret = None \/ r.ret \notin sequence[i + 1] THEN [ret |-> FALSE, q |-> r.q]
        ELSE matches_sequence_from(r.q, start_pos, sequence, i + 1)

-----------------------------------------------------------------------------
(* character_encoding.rs: Utf8Decoder::decode.  The result is the record    *)
(*   [kind, char, bytes, err]                                               *)
(* kind "Some": Ok(Some((char, bytes)));  "None": Ok(None);                 *)
(* "Err": Err(err);  "Panic": the assertion of line 352 failed.             *)

DecSome(c, bytes) == [kind |-> "Some", char |-> c, bytes |-> bytes, err |-> ""]

DecNone == [kind |-> "None", char |-> None, bytes |-> <<>>, err |-> ""]

DecErr(e) == [kind |-> "Err", char |-> None, bytes |-> <<>>, err |-> e]

DecPanic == [kind |-> "Panic", char |-> None, bytes |-> <<>>, err |-> ""]

\* c & 0b1100_0000 == 0b1000_0000
IsContinuation(c) == c \in 128..191

\* next_byte! without the test of the two high bits
next_byte_macro_unchecked(st) ==
    IF st.err # "" THEN st
    ELSE LET r == next_byte(st.q)
         IN  IF r.ret = None
             THEN [st EXCEPT !.q = r.q, !.err = "UnexpectedEof"]
             ELSE [st EXCEPT !.q = r.q, !.bytes = Append(@, r.ret),
                             !.data = Append(@, r.ret % 64)]

\* the macro next_byte!: the next byte of the cursor pushed on bytes, and its
\* six data bits, or the error
next_byte_macro(st) ==
    IF st.err # "" THEN st
    ELSE LET r == next_byte(st.q)
         IN  IF r.ret = None
             THEN [st EXCEPT !.q = r.q, !.err = "UnexpectedEof"]
             ELSE IF IsContinuation(r.ret)
             THEN [st EXCEPT !.q = r.q, !.bytes = Append(@, r.ret),
                             !.data = Append(@, r.ret % 64)]
             ELSE [st EXCEPT !.q = r.q, !.bytes = Append(@, r.ret),
                             !.err = "InvalidData"]

\* the match of lines 307..341 with the noncharacters of plane 0 alone
IsNonCharacter_plane0(cp) ==
    \/ cp \in 64976..65007
    \/ cp \in {65534, 65535}

\* the 66 noncharacters the match of lines 307..341 lists
IsNonCharacter(cp) ==
    \/ cp \in 64976..65007
    \/ (cp <= 1114111 /\ cp % 65536 \in {65534, 65535})

\* char::is_ascii_whitespace
is_ascii_whitespace(c) == c \in {9, 10, 12, 13, 32}

\* the arm of lines 343..347 and its guard
IsRejectedControl(cp) ==
    /\ cp \in (0..31) \cup (127..159)
    /\ cp # 0
    /\ ~is_ascii_whitespace(cp)

\* lines 300..359: the checks on the decoded code point
CheckCodePoint(code_point, bytes) ==
    IF code_point \in 55296..57343 THEN DecErr("UnexpectedSurrogate")
    ELSE IF IsNonCharacter(code_point) THEN DecErr("UnexpectedNonCharacter")
    ELSE IF IsRejectedControl(code_point) THEN DecErr("UnexpectedControl")
    ELSE IF ~(code_point < 1114111) THEN DecPanic
    ELSE DecSome(code_point, bytes)

\* CodePoint without `| c` in the three-byte form
CodePoint_without_c(a, data) ==
    CASE Len(data) = 0 -> a
      [] Len(data) = 1 -> (a % 32) * 64 + data[1]
      [] Len(data) = 2 -> (a % 16) * 4096 + data[1] * 64
      [] Len(data) = 3 -> (a % 8) * 262144 + data[1] * 4096 + data[2] * 64 + data[3]

\* the code point of a lead byte a and the data bits of its continuation bytes
CodePoint(a, data) ==
    CASE Len(data) = 0 -> a
      [] Len(data) = 1 -> (a % 32) * 64 + data[1]
      [] Len(data) = 2 -> (a % 16) * 4096 + data[1] * 64 + data[2]
      [] Len(data) = 3 -> (a % 8) * 262144 + data[1] * 4096 + data[2] * 64 + data[3]

\* the number of continuation bytes the lead byte a asks for, None for a byte
\* that starts no sequence
ContinuationCount(a) ==
    IF a < 128 THEN 0
    ELSE IF a \in 192..223 THEN 1
    ELSE IF a \in 224..239 THEN 2
    ELSE IF a \in 240..247 THEN 3
    ELSE None

RECURSIVE next_bytes(_, _)
\* k uses of next_byte!, each propagating the error of the one before (`?`)
next_bytes(st, k) == IF k = 0 THEN st ELSE next_bytes(next_byte_macro(st), k - 1)

\* Utf8Decoder::decode: [res, q]
decode(q) ==
    LET first == next_byte(q)
    IN  IF first.ret = None THEN [res |-> DecNone, q |-> first.q]
        ELSE LET a  == first.ret
                 k  == ContinuationCount(a)
                 st == next_bytes([q |-> first.q, bytes |-> <<a>>, data |-> <<>>,
                                   err |-> ""], IF k = None THEN 0 ELSE k)
             IN  IF k = None THEN [res |-> DecErr("InvalidData"), q |-> first.q]
                 ELSE IF st.err # "" THEN [res |-> DecErr(st.err), q |-> st.q]
                 ELSE [res |-> CheckCodePoint(CodePoint(a, st.data), st.bytes),
                       q   |-> st.q]

-----------------------------------------------------------------------------
(* prescan.rs: HtmlPreScanner.  The scanner is the record                   *)
(*   [buf, position, max_pos, peeked_to]                                    *)
(* buf holds the bytes the cursor can still deliver (its peek buffer, then  *)
(* what the source has left); byte_stream.peek_nth(i) is buf[i + 1], or     *)
(* None past the end.  A peek below the length of the peek buffer leaves    *)
(* the cursor as it is, and every peek made after a window test (assert_pos,*)
(* contains_bytes, matches_sequence, the ranges that end at max_pos) is     *)
(* below it.  peeked_to is the highest index peeked with no window test     *)
(* before it, -1 when there was none: those peeks can make the cursor read. *)
(* A String of the scanner is the sequence of its character codes; the     *)
(* bytes pushed into one are ASCII in every document of this model, so byte *)
(* offsets and character offsets agree.                                     *)
(* Option<bool> is one of "None", "true", "false".                          *)

PreScanWindow == 1024

\* HtmlPreScanner::new on the cursor q
HtmlPreScanner_new(q) ==
    [buf |-> q.peeked \o q.stream, position |-> 0, max_pos |-> 0, peeked_to |-> -1]

\* ASCII whitespace of the pre-scan: 0x09 0x0A 0x0C 0x0D 0x20
WS == {9, 10, 12, 13, 32}

\* line 57: (0x41..0x5A).chain(0x61..0x7A), both ranges without their end
letters == (65..89) \cup (97..121)

\* the value of byte_stream.peek_nth(i)
PeekAt(buf, i) == IF i < Len(buf) THEN buf[i + 1] ELSE None

\* IoQueue::contains_bytes, its value
IoQueue_contains_bytes(buf, start_pos, bytes) ==
    \A i \in 1..Len(bytes) : PeekAt(buf, start_pos + i - 1) = bytes[i]

\* IoQueue::matches_sequence, its value
IoQueue_matches_sequence(buf, start_pos, sequence) ==
    \A i \in 1..Len(sequence) : PeekAt(buf, start_pos + i - 1) \in sequence[i]

\* HtmlPreScanner::contains_bytes
contains_bytes(ps, bytes) ==
    IF ps.position + Len(bytes) > ps.max_pos THEN "None"
    ELSE IF IoQueue_contains_bytes(ps.buf, ps.position, bytes) THEN "true"
    ELSE "false"

\* HtmlPreScanner::matches_sequence
matches_sequence(ps, sequence) ==
    IF ps.position + Len(sequence) > ps.max_pos THEN "None"
    ELSE IF IoQueue_matches_sequence(ps.buf, ps.position, sequence) THEN "true"
    ELSE "false"

\* HtmlPreScanner::assert_pos: TRUE for Some(()), FALSE for None
assert_pos(ps) == ps.position <= ps.max_pos

\* HtmlPreScanner::current_byte
current_byte(ps) == PeekAt(ps.buf, ps.position)

\* self.position += k
Advance(ps, k) == [ps EXCEPT !.position = @ + k]

\* what a loop of the scanner hands back: k is "ok", or "None" when a `?`
\* left the function
Step(k, ps) == [k |-> k, ps |-> ps]

RECURSIVE skip_comment(_)
\* lines 62..66: while !contains_bytes(`-->`)? { assert_pos()?; position += 1 }
skip_comment(ps) ==
    LET c == contains_bytes(ps, <<45, 45, 62>>)
    IN  IF c = "None" THEN Step("None", ps)
        ELSE IF c = "true" THEN Step("ok", ps)
        ELSE IF ~assert_pos(ps) THEN Step("None", ps)
        ELSE skip_comment(Advance(ps, 1))

RECURSIVE skip_while(_, _)
\* while matches_sequence(&[set])? { position += 1 }
\* (lines 270..272, 299..301, 328..330)
skip_while(ps, set) ==
    LET c == matches_sequence(ps, <<set>>)
    IN  IF c = "None" THEN Step("None", ps)
        ELSE IF c = "false" THEN Step("ok", ps)
        ELSE skip_while(Advance(ps, 1), set)

\* while !matches_sequence(&[set])? { position += 1 }
\* (lines 170..172; lines 181..183 with contains_bytes of one byte, which
\* tests the same).  The loop runs over a whole tag, so it is written as
\* the first position where the test is not false: at max_pos, or where the
\* loop starts when that is later, the test is None.
skip_until(ps, set) ==
    LET last == IF ps.max_pos > ps.position THEN ps.max_pos ELSE ps.position
        stop == CHOOSE p \in ps.position..last :
                    /\ matches_sequence([ps EXCEPT !.position = p], <<set>>) # "false"
                    /\ \A r \in ps.position..(p - 1) :
                           matches_sequence([ps EXCEPT !.position = r], <<set>>) = "false"
        at   == [ps EXCEPT !.position = stop]
    IN  IF matches_sequence(at, <<set>>) = "None" THEN Step("None", at) ELSE Step("ok", at)

\* Strings the scanner compares with
S_charset == Bytes("charset")

S_content == Bytes("content")

S_http_equiv == Bytes("http-equiv")

S_content_type == Bytes("content-type")

\* value.parse::<CharacterEncoding>() of a String given by its codes: no
\* label holds a character outside TextCodes
parse(codes) ==
    IF \A i \in 1..Len(codes) : codes[i] \in TextCodes
    THEN from_str(StrOf(codes))
    ELSE Err

\* Option<CharacterEncoding>::None
NoEncoding == "None"

\* .ok() of a parse
ok(e) == IF e = Err THEN NoEncoding ELSE e

\* &value[from..to] of a String (0-based, to exclusive): k is "ok" with the
\* slice in s, or "Panic" when from > to or to > value.len()
Slice(value, from, to) ==
    IF from > to \/ to > Len(value)
    THEN [k |-> "Panic", s |-> <<>>]
    ELSE [k |-> "ok", s |-> SubSeq(value, from + 1, to)]

\* value.chars().nth(position): the code, or None
CharsNth(value, position) == IF position < Len(value) THEN value[position + 1] ELSE None

\* the index in codes of the first element in set, None when there is none
\* (chars().enumerate().find(..).map(|(i, _)| i), 0-based)
FindIndex(codes, set) ==
    IF \E i \in 1..Len(codes) : codes[i] \in set
    THEN (CHOOSE i \in 1..Len(codes) :
              codes[i] \in set /\ \A j \in 1..(i - 1) : codes[j] \notin set) - 1
    ELSE None

\* what extract_encoding_from_meta returns: k is "Some" (enc an encoding),
\* "None", or "Panic" (a slice out of range, an unwrap of None)
Extracted(k, enc) == [k |-> k, enc |-> enc]

\* where a loop over value stops: k is "ok" with the position, "None"
\* (return None) or "Panic"
At(k, position) == [k |-> k, position |-> position]

RECURSIVE find_charset(_, _)
\* Step 2, lines 198..204: the position of "charset" at or after position
find_charset(value, position) ==
    LET sl == Slice(value, position, position + 7)
    IN  IF sl.k = "Panic" THEN At("Panic", position)
        ELSE IF sl.s = S_charset THEN At("ok", position)
        ELSE IF position > Len(value) THEN At("None", position)
        ELSE find_charset(value, position + 1)

RECURSIVE skip_value_whitespace(_, _)
\* Steps 3 and 5, lines 209..215 and 226..232: the position of the first
\* character at or after position that is no whitespace
skip_value_whitespace(value, position) ==
    LET c == CharsNth(value, position)
    IN  IF c = None THEN At("Panic", position)
        ELSE IF ~is_ascii_whitespace(c) THEN At("ok", position)
        ELSE IF position > Len(value) THEN At("None", position)
        ELSE skip_value_whitespace(value, position + 1)

\* string.parse().ok() of a slice
parse_slice(string) ==
    IF string.k = "Panic" THEN Extracted("Panic", NoEncoding)
    ELSE IF parse(string.s) = Err THEN Extracted("None", NoEncoding)
    ELSE Extracted("Some", parse(string.s))

\* lines 234..264: the token at position, after `charset` `=`
read_charset_token(value, position) ==
    LET c    == CharsNth(value, position)
        rest == SubSeq(value, position + 1, Len(value))
    IN  IF c = None THEN Extracted("Panic", NoEncoding)
        ELSE IF c \in {34, 39}
        THEN \* value[position..] starts with the quote: it contains the quote,
             \* and find gives the index of that first quote
             parse_slice(Slice(value, position, FindIndex(rest, {c})))
        ELSE LET found      == FindIndex(rest, WS \cup {59})
                 last_index == IF found = None THEN Len(value) ELSE found
             IN  parse_slice(Slice(value, position, last_index))

RECURSIVE extract_from(_, _)
\* the loop 'outer of extract_encoding_from_meta, entered at position
extract_from(value, position) ==
    LET p2 == find_charset(value, position)
        p3 == skip_value_whitespace(value, p2.position + 7)
        p5 == skip_value_whitespace(value, p3.position + 1)
    IN  IF p2.k # "ok" THEN Extracted(p2.k, NoEncoding)
        ELSE IF p3.k # "ok" THEN Extracted(p3.k, NoEncoding)
        ELSE IF CharsNth(value, p3.position) # 61
             THEN extract_from(value, p3.position - 1)
        ELSE IF p5.k # "ok" THEN Extracted(p5.k, NoEncoding)
        ELSE read_charset_token(value, p5.position)

\* HtmlPreScanner::extract_encoding_from_meta
extract_encoding_from_meta(value) == extract_from(value, 0)

\* what get_attribute returns: k is "None" (a `?` left the function: the
\* window is exhausted), "NoAttr" (Some(None)) or "Attr" (Some(Some((name,
\* value))))
Attr(k, name, value, ps) == [k |-> k, name |-> name, value |-> value, ps |-> ps]

\* the byte pushed on a name or a value: upper-case ASCII folded
Folded(b) == IF b \in 65..90 THEN b + 32 ELSE b

RECURSIVE attribute_value_quoted(_, _, _, _)
\* lines 336..349: the loop after an opening quote b
attribute_value_quoted(ps, b, name, value) ==
    LET p1 == Advance(ps, 1)
        x  == current_byte(p1)
    IN  IF ~assert_pos(p1) THEN Attr("None", name, value, p1)
        ELSE IF x = None THEN Attr("None", name, value, p1)
        ELSE IF x = b THEN Attr("Attr", name, value, Advance(p1, 1))
        ELSE attribute_value_quoted(p1, b, name, Append(value, Folded(x)))

RECURSIVE attribute_value_unquoted(_, _, _)
\* Steps 11 and 12, lines 359..369
attribute_value_unquoted(ps, name, value) ==
    LET x  == current_byte(ps)
        p1 == Advance(ps, 1)
    IN  IF x = None THEN Attr("None", name, value, ps)
        ELSE IF x \in WS \cup {62} THEN Attr("Attr", name, value, ps)
        ELSE IF ~assert_pos(p1) THEN Attr("None", name, Append(value, Folded(x)), p1)
        ELSE attribute_value_unquoted(p1, name, Append(value, Folded(x)))

\* lines 325..356: the value of an attribute, position after its `=`
attribute_value(ps, name) ==
    LET sk == IF assert_pos(ps) THEN skip_while(ps, WS) ELSE Step("None", ps)
        p  == sk.ps
        x  == current_byte(p)
        p1 == Advance(p, 1)
    IN  IF sk.k = "None" THEN Attr("None", name, <<>>, p)
        ELSE IF ~assert_pos(p) THEN Attr("None", name, <<>>, p)
        ELSE IF x = None THEN Attr("None", name, <<>>, p)
        ELSE IF x \in {34, 39} THEN attribute_value_quoted(p, x, name, <<>>)
        ELSE IF x = 62 THEN Attr("Attr", name, <<>>, p)
        ELSE IF ~assert_pos(p1) THEN Attr("None", name, <<Folded(x)>>, p1)
        ELSE attribute_value_unquoted(p1, name, <<Folded(x)>>)

RECURSIVE attribute_name(_, _)
\* Step 4, lines 285..323: the loop 'parse_attribute_name
attribute_name(ps, name) ==
    LET c == current_byte(ps)
    IN  IF ~assert_pos(ps) THEN Attr("None", name, <<>>, ps)
        ELSE IF c = None THEN Attr("None", name, <<>>, ps)
        ELSE IF c = 61 /\ name # <<>> THEN attribute_value(Advance(ps, 1), name)
        ELSE IF c \in WS
        THEN LET sk == skip_while(ps, WS)
                 eq == contains_bytes(sk.ps, <<61>>)
             IN  IF sk.k = "None" THEN Attr("None", name, <<>>, sk.ps)
                 ELSE IF ~assert_pos(sk.ps) THEN Attr("None", name, <<>>, sk.ps)
                 ELSE IF eq = "None" THEN Attr("None", name, <<>>, sk.ps)
                 ELSE IF eq = "false" THEN Attr("Attr", name, <<>>, sk.ps)
                 ELSE attribute_value(Advance(sk.ps, 1), name)
        ELSE IF c \in {47, 62} THEN Attr("Attr", name, <<>>, ps)
        ELSE attribute_name(Advance(ps, 1), Append(name, Folded(c)))

\* HtmlPreScanner::get_attribute
get_attribute(ps) ==
    LET sk == skip_while(ps, WS \cup {47})
        gt == contains_bytes(sk.ps, <<62>>)
    IN  IF sk.k = "None" THEN Attr("None", <<>>, <<>>, sk.ps)
        ELSE IF ~assert_pos(sk.ps) THEN Attr("None", <<>>, <<>>, sk.ps)
        ELSE IF gt = "None" THEN Attr("None", <<>>, <<>>, sk.ps)
        ELSE IF gt = "true" THEN Attr("NoAttr", <<>>, <<>>, sk.ps)
        ELSE attribute_name(sk.ps, <<>>)

\* Steps 2..5 of the meta branch, lines 84..87
MetaInit ==
    [attributes |-> {}, got_pragma |-> FALSE, need_pragma |-> "None",
     charset |-> NoEncoding]

\* Step 9 with need_pragma kept as the first of content and charset set it
meta_attribute_first_wins(m, name, value) ==
    LET seen == [m EXCEPT !.attributes = @ \cup {name}]
        enc  == extract_encoding_from_meta(value)
    IN  IF name = S_http_equiv
        THEN [k |-> "ok",
              m |-> IF value = S_content_type
                    THEN [seen EXCEPT !.got_pragma = TRUE] ELSE seen]
        ELSE IF name = S_content
        THEN IF enc.k = "Panic" THEN [k |-> "Panic", m |-> seen]
             ELSE [k |-> "ok",
                   m |-> IF enc.k = "Some" /\ m.charset = NoEncoding
                         THEN [seen EXCEPT !.charset = enc.enc, !.need_pragma = "true"]
                         ELSE seen]
        ELSE IF name = S_charset
        THEN [k |-> "ok",
              m |-> [seen EXCEPT !.charset = ok(parse(value)),
                                 !.need_pragma = IF @ = "None" THEN "false" ELSE @]]
        ELSE [k |-> "ok", m |-> seen]

\* Step 9, lines 107..126: k is "ok" or "Panic"
meta_attribute(m, name, value) ==
    LET seen == [m EXCEPT !.attributes = @ \cup {name}]
        enc  == extract_encoding_from_meta(value)
    IN  IF name = S_http_equiv
        THEN [k |-> "ok",
              m |-> IF value = S_content_type
                    THEN [seen EXCEPT !.got_pragma = TRUE] ELSE seen]
        ELSE IF name = S_content
        THEN IF enc.k = "Panic" THEN [k |-> "Panic", m |-> seen]
             ELSE [k |-> "ok",
                   m |-> IF enc.k = "Some" /\ m.charset = NoEncoding
                         THEN [seen EXCEPT !.charset = enc.enc, !.need_pragma = "true"]
                         ELSE seen]
        ELSE IF name = S_charset
        THEN [k |-> "ok",
              m |-> [seen EXCEPT !.charset = ok(parse(value)), !.need_pragma = "false"]]
        ELSE [k |-> "ok", m |-> seen]

\* Steps 6..10, lines 90..129: one turn of the loop 'attributes.  k is
\* "again" (the loop goes on), "ok" (it was left by break), "None" or
\* "Panic"
meta_attributes_turn(ps, m) ==
    LET a == get_attribute(ps)
        r == meta_attribute(m, a.name, a.value)
    IN  IF a.k = "None" THEN [k |-> "None", m |-> m, ps |-> a.ps]
        ELSE IF a.k = "NoAttr" THEN [k |-> "ok", m |-> m, ps |-> a.ps]
        ELSE IF a.name \in m.attributes THEN [k |-> "again", m |-> m, ps |-> a.ps]
        ELSE IF r.k = "Panic" THEN [k |-> "Panic", m |-> r.m, ps |-> a.ps]
        ELSE [k |-> "again", m |-> r.m, ps |-> a.ps]

RECURSIVE meta_attributes(_, _)
\* the loop 'attributes after a turn that ended with r
meta_attributes_continue(r) == IF r.k = "again" THEN meta_attributes(r.ps, r.m) ELSE r

\* Steps 6..10, lines 90..129: the loop 'attributes; k is "ok", "None" or
\* "Panic"
meta_attributes(ps, m) == meta_attributes_continue(meta_attributes_turn(ps, m))

\* line 177: one turn of `while self.get_attribute()?.is_some() {}`; k is
\* "again", "ok" (the loop ended) or "None"
drain_attributes_turn(ps) ==
    LET a == get_attribute(ps)
    IN  IF a.k = "None" THEN Step("None", a.ps)
        ELSE IF a.k = "NoAttr" THEN Step("ok", a.ps)
        ELSE Step("again", a.ps)

RECURSIVE drain_attributes(_)
\* the loop of line 177 after a turn that ended with r
drain_attributes_continue(r) == IF r.k = "again" THEN drain_attributes(r.ps) ELSE r

\* line 177: while self.get_attribute()?.is_some() {}
drain_attributes(ps) == drain_attributes_continue(drain_attributes_turn(ps))

\* Steps 14 and 15 of the meta branch, lines 149..160
normalize_charset(charset) ==
    IF charset \in {"Utf16BE", "Utf16LE"} THEN "Utf8"
    ELSE IF charset = "XUserDefined" THEN "Windows1252"
    ELSE charset

\* what the scan returns: k is "Some" (enc an encoding), "None", "Panic"
Scanned(k, enc, ps) == [k |-> k, enc |-> enc, ps |-> ps]

\* the byte sets of the case-insensitive `<meta` and the byte after it
MetaSequence == <<{60}, {77, 109}, {69, 101}, {84, 116}, {65, 97}, {9, 10, 12, 13, 32, 47}>>

\* Steps 11..16 of the meta branch, lines 131..163, once the loop
\* 'attributes has ended with r.  k = "next" is `continue 'next_byte` at ps
meta_branch_end(r) ==
    IF r.k # "ok" THEN Scanned(r.k, NoEncoding, r.ps)
    ELSE IF r.m.need_pragma = "None"
    THEN Scanned("next", NoEncoding, Advance(r.ps, 1))
    ELSE IF r.m.need_pragma = "true" /\ ~r.m.got_pragma
    THEN Scanned("next", NoEncoding, Advance(r.ps, 1))
    ELSE IF r.m.charset = NoEncoding
    THEN Scanned("next", NoEncoding, Advance(r.ps, 1))
    ELSE Scanned("Some", normalize_charset(r.m.charset), r.ps)

\* lines 177..178, once the attributes of a tag have been drained with dr
tag_branch_end(dr) ==
    IF dr.k = "None" THEN Scanned("None", NoEncoding, dr.ps)
    ELSE Scanned("next", NoEncoding, Advance(dr.ps, 1))

\* lines 168..174: a start or end tag, its name skipped with sk; k =
\* "tag_attributes" is the loop of line 177 entered at ps
tag_branch(sk) ==
    IF sk.k = "None" THEN Scanned("None", NoEncoding, sk.ps)
    ELSE IF ~assert_pos(sk.ps) THEN Scanned("None", NoEncoding, sk.ps)
    ELSE Scanned("tag_attributes", NoEncoding, sk.ps)

\* lines 60..70: a comment, skipped with sk up to its -->
comment_branch(sk) ==
    IF sk.k = "None" THEN Scanned("None", NoEncoding, sk.ps)
    ELSE Scanned("next", NoEncoding, Advance(sk.ps, 3))

\* lines 181..186: <!, </ or <?, skipped with sk up to the next >
special_branch(sk) ==
    IF sk.k = "None" THEN Scanned("None", NoEncoding, sk.ps)
    ELSE IF ~assert_pos(sk.ps) THEN Scanned("None", NoEncoding, sk.ps)
    ELSE Scanned("next", NoEncoding, Advance(sk.ps, 1))

\* Step 4 of _pre_scan_byte_stream, lines 54..189: a turn of the loop
\* 'next_byte up to its attribute loop, if it has one: k = "attributes" is
\* the loop 'attributes of a meta tag entered at ps, k = "tag_attributes"
\* the loop of line 177
next_byte_branch(ps) ==
    LET comment   == contains_bytes(ps, <<60, 33, 45, 45>>)
        meta      == matches_sequence(ps, MetaSequence)
        start_tag == matches_sequence(ps, <<{60}, letters>>)
        end_tag   == matches_sequence(ps, <<{60}, {47}, letters>>)
        special   == matches_sequence(ps, <<{60}, {33, 47, 63}>>)
    IN  IF ~assert_pos(ps) THEN Scanned("None", NoEncoding, ps)
        ELSE IF comment = "None" THEN Scanned("None", NoEncoding, ps)
        ELSE IF comment = "true" THEN comment_branch(skip_comment(ps))
        ELSE IF meta = "None" THEN Scanned("None", NoEncoding, ps)
        ELSE IF meta = "true" THEN Scanned("attributes", NoEncoding, Advance(ps, 5))
        ELSE IF start_tag = "None" THEN Scanned("None", NoEncoding, ps)
        ELSE IF start_tag = "false" /\ end_tag = "None"
             THEN Scanned("None", NoEncoding, ps)
        ELSE IF start_tag = "true" \/ end_tag = "true"
        THEN tag_branch(skip_until(ps, WS \cup {62}))
        ELSE IF special = "None" THEN Scanned("None", NoEncoding, ps)
        ELSE IF special = "true" THEN special_branch(skip_until(ps, {62}))
        ELSE Scanned("next", NoEncoding, Advance(ps, 1))

\* the rest of a turn of the loop 'next_byte that has come to b
after_branch(b) ==
    IF b.k = "attributes" THEN meta_branch_end(meta_attributes(b.ps, MetaInit))
    ELSE IF b.k = "tag_attributes" THEN tag_branch_end(drain_attributes(b.ps))
    ELSE b

\* Step 4 of _pre_scan_byte_stream, lines 54..189: one turn of the loop
\* 'next_byte
next_byte_turn(ps) == after_branch(next_byte_branch(ps))

RECURSIVE next_byte_loop(_)
\* the loop 'next_byte after a turn that ended with s
next_byte_continue(s) == IF s.k = "next" THEN next_byte_loop(s.ps) ELSE s

\* Step 4 of _pre_scan_byte_stream, lines 54..189: the loop 'next_byte
next_byte_loop(ps) == next_byte_continue(next_byte_turn(ps))

\* Step 3 of _pre_scan_byte_stream, lines 41..50: the UTF-16 XML
\* declarations; k = "next" is the loop 'next_byte entered at ps
utf16_xml_declaration(ps) ==
    LET le == contains_bytes(ps, <<60, 0, 63, 0, 120, 0>>)
        be == contains_bytes(ps, <<0, 60, 0, 63, 0, 120>>)
    IN  IF le = "None" THEN Scanned("None", NoEncoding, ps)
        ELSE IF le = "true" THEN Scanned("Some", "Utf16LE", ps)
        ELSE IF be = "None" THEN Scanned("None", NoEncoding, ps)
        ELSE IF be = "true" THEN Scanned("Some", "Utf16BE", ps)
        ELSE Scanned("next", NoEncoding, ps)

\* HtmlPreScanner::_pre_scan_byte_stream, from line 41 on, max_pos set
pre_scan_from_start(ps) == next_byte_continue(utf16_xml_declaration(ps))

S_xml == Bytes("<?xml")

S_encoding == Bytes("encoding")

\* Step 4 of get_xml_encoding, lines 394..396:
\* while !contains_bytes(`encoding`)? { position += 1 }, written as the
\* first position where the test is not false, as skip_until is
find_encoding(ps) ==
    LET last == IF ps.max_pos > ps.position THEN ps.max_pos ELSE ps.position
        stop == CHOOSE p \in ps.position..last :
                    /\ contains_bytes([ps EXCEPT !.position = p], S_encoding) # "false"
                    /\ \A r \in ps.position..(p - 1) :
                           contains_bytes([ps EXCEPT !.position = r], S_encoding) = "false"
        at   == [ps EXCEPT !.position = stop]
    IN  IF contains_bytes(at, S_encoding) = "None" THEN Step("None", at) ELSE Step("ok", at)

RECURSIVE skip_le_0x20(_)
\* Steps 6 and 9 of get_xml_encoding, lines 402..404 and 415..417
skip_le_0x20(ps) ==
    LET b    == current_byte(ps)
        seen == [ps EXCEPT !.peeked_to = IF ps.position > @ THEN ps.position ELSE @]
    IN  IF b = None THEN Step("None", seen)
        ELSE IF b <= 32 THEN skip_le_0x20(Advance(seen, 1))
        ELSE Step("ok", seen)

Max(S) == CHOOSE x \in S : \A y \in S : y <= x

\* Steps 13..18 of get_xml_encoding, lines 431..467, position after the
\* opening quote
xml_encoding_value(ps) ==
    LET ends == {i \in ps.position..(ps.max_pos - 1) : PeekAt(ps.buf, i) = 62}
        encoding_end_position == Max(ends)
        potential_encoding ==
            [i \in 1..(encoding_end_position - ps.position) |->
                PeekAt(ps.buf, ps.position + i - 1)]
        encoding == parse(potential_encoding)
    IN  IF ends = {} THEN Scanned("None", NoEncoding, ps)
        ELSE IF \E i \in DOMAIN potential_encoding : potential_encoding[i] < 32
             THEN Scanned("None", NoEncoding, ps)
        ELSE IF encoding = Err THEN Scanned("None", NoEncoding, ps)
        ELSE IF encoding \in {"Utf16BE", "Utf16LE"} THEN Scanned("Some", "Utf8", ps)
        ELSE Scanned("Some", encoding, ps)

\* HtmlPreScanner::get_xml_encoding
get_xml_encoding(self) ==
    LET ps    == [self EXCEPT !.position = 0]
        xml   == contains_bytes(ps, S_xml)
        found == \E i \in ps.position..(ps.max_pos - 1) : PeekAt(ps.buf, i) = 62
        s4    == find_encoding(ps)
        s6    == skip_le_0x20(Advance(s4.ps, 8))
        s9    == skip_le_0x20(Advance(s6.ps, 1))
        quote_mark == current_byte(s9.ps)
    IN  IF xml # "true" THEN Scanned("None", NoEncoding, ps)
        ELSE IF ~found THEN Scanned("None", NoEncoding, ps)
        ELSE IF s4.k = "None" THEN Scanned("None", NoEncoding, s4.ps)
        ELSE IF s6.k = "None" THEN Scanned("None", NoEncoding, s6.ps)
        ELSE IF current_byte(s6.ps) # 61 THEN Scanned("None", NoEncoding, s6.ps)
        ELSE IF s9.k = "None" THEN Scanned("None", NoEncoding, s9.ps)
        ELSE IF quote_mark \notin {34, 39} THEN Scanned("None", NoEncoding, s9.ps)
        ELSE xml_encoding_value(Advance(s9.ps, 1))

\* pre_scan_byte_stream, lines 23..27: first is what _pre_scan_byte_stream
\* returned
or_else_xml_encoding(first) ==
    IF first.k = "None" THEN get_xml_encoding(first.ps) ELSE first

\* line 32: usize::min(self.byte_stream.peek_len(), 1024) - 1, below 0 where
\* the subtraction overflows
window_end(q) == Min(peek_len(q), PreScanWindow) - 1

\* HtmlPreScanner::new and pre_scan_byte_stream on the cursor q.  k is
\* "Some", "None", "Panic", or "Overflow": line 32 subtracts 1 from
\* min(peek_len, 1024) = 0, which aborts a build with overflow checks and
\* wraps to usize::MAX in one without, where the loop then never ends.
pre_scan_byte_stream(q) ==
    LET max_pos == window_end(q)
        ps      == [HtmlPreScanner_new(q) EXCEPT !.max_pos = max_pos]
    IN  IF max_pos < 0 THEN Scanned("Overflow", NoEncoding, ps)
        ELSE or_else_xml_encoding(pre_scan_from_start(ps))

-----------------------------------------------------------------------------
(* parser.rs: HtmlParser                                                    *)

\* const DEFAULT_ENCODING (line 224), also CharacterEncoding::default()
DEFAULT_ENCODING == "Utf8"

\* char::REPLACEMENT_CHARACTER
REPLACEMENT_CHARACTER == 65533

\* what pre_scan_byte_stream returned to determine_encoding
PreScan(pre) == [k |-> pre.k, enc |-> pre.enc]

\* determine_encoding returned before the pre-scan
NoPreScan == [k |-> "unused", enc |-> NoEncoding]

\* what the sniffing step of try_parse did: k is "no" (try_parse has not run),
\* "skipped" (confidence was Certain), or the k of determine_encoding with
\* the pair it returned and what the pre-scan had returned to it
Sniffed(k, encoding, confidence, pre) ==
    [k |-> k, encoding |-> encoding, confidence |-> confidence, pre |-> pre]

NotSniffed == Sniffed("no", DEFAULT_ENCODING, "Tentative", NoPreScan)

\* what determine_encoding returns, and the cursor it leaves: k is "ok",
\* "Panic" (the pre-scan aborted) or "Overflow" (see pre_scan_byte_stream)
Determined(k, encoding, confidence, q, pre) ==
    [k |-> k, encoding |-> encoding, confidence |-> confidence, q |-> q,
     pre |-> pre]

\* determine_encoding, lines 205..226: pre is what the pre-scan returned
\* and q the cursor it left
pre_scanned(pre, q) ==
    IF pre.k = "Some" THEN Determined("ok", pre.enc, "Tentative", q, PreScan(pre))
    ELSE IF pre.k = "None"
    THEN Determined("ok", DEFAULT_ENCODING, "Tentative", q, PreScan(pre))
    ELSE Determined(pre.k, DEFAULT_ENCODING, "Tentative", q, PreScan(pre))

\* the cursor q after the scanner's peeks: those with no window test before
\* them went up index by index to peeked_to or to the first None, as the
\* peeks of peek_max do
peeked_by_scanner(ps, q) == peek_max(q, ps.peeked_to + 1)

\* determine_encoding, lines 205..226, with pre what the pre-scan returned
\* on the cursor q
pre_scanned_on(pre, q) == pre_scanned(pre, peeked_by_scanner(pre.ps, q))

\* determine_encoding, lines 199..226, on the cursor q
after_bom_sniffing(q) == pre_scanned_on(pre_scan_byte_stream(q), q)

\* determine_encoding with byte order marks that need three bytes of input
determine_encoding_three_bytes(io_queue) ==
    LET b0 == peek_nth(io_queue, 0)
        b1 == peek_nth(b0.q, 1)
        b2 == peek_nth(b1.q, 2)
    IN  IF b0.ret = 239 /\ b1.ret = 187 /\ b2.ret = 191
        THEN Determined("ok", "Utf8", "Certain", b2.q, NoPreScan)
        ELSE IF b0.ret = 254 /\ b1.ret = 255 /\ b2.ret # None
        THEN Determined("ok", "Utf16BE", "Certain", b2.q, NoPreScan)
        ELSE IF b0.ret = 255 /\ b1.ret = 254 /\ b2.ret # None
        THEN Determined("ok", "Utf16LE", "Certain", b2.q, NoPreScan)
        ELSE after_bom_sniffing(peek_max(b2.q, PreScanWindow))

\* HtmlParser::determine_encoding
determine_encoding(io_queue) ==
    LET b0 == peek_nth(io_queue, 0)
        b1 == peek_nth(b0.q, 1)
        b2 == peek_nth(b1.q, 2)
    IN  IF b0.ret = 239 /\ b1.ret = 187 /\ b2.ret = 191
        THEN Determined("ok", "Utf8", "Certain", b2.q, NoPreScan)
        ELSE IF b0.ret = 254 /\ b1.ret = 255
        THEN Determined("ok", "Utf16BE", "Certain", b2.q, NoPreScan)
        ELSE IF b0.ret = 255 /\ b1.ret = 254
        THEN Determined("ok", "Utf16LE", "Certain", b2.q, NoPreScan)
        ELSE after_bom_sniffing(peek_max(b2.q, PreScanWindow))

\* CharacterEncoding::decoder: only Utf8 has one, every other arm is todo!()
has_decoder(encoding) == encoding = "Utf8"

\* what decode_char returns, and the parser fields it leaves: k is "Some"
\* (Ok(Some(char))), "None" (Ok(None)), "Err" (Err(err)) or "Panic"
DecodedChar(k, char, err, q, read) ==
    [k |-> k, char |-> char, err |-> err, q |-> q, read_bytes |-> read]

\* HtmlParser::decode_char
decode_char(encoding, io_queue, read) ==
    LET d == decode(io_queue)
    IN  IF ~has_decoder(encoding) THEN DecodedChar("Panic", None, "", io_queue, read)
        ELSE IF d.res.kind = "Panic" THEN DecodedChar("Panic", None, "", d.q, read)
        ELSE IF d.res.kind = "Err" /\ d.res.err \in {"InvalidData", "UnexpectedEof"}
        THEN DecodedChar("Some", REPLACEMENT_CHARACTER, "", d.q, read)
        ELSE IF d.res.kind = "Err" /\ d.res.err = "UnexpectedSurrogate"
        THEN DecodedChar("Err", None, "SurrogateInInputStream", d.q, read)
        ELSE IF d.res.kind = "Err" /\ d.res.err = "UnexpectedNonCharacter"
        THEN DecodedChar("Err", None, "NoncharacterInInputStream", d.q, read)
        ELSE IF d.res.kind = "Err"
        THEN DecodedChar("Err", None, "ControlCharacterInInputStream", d.q, read)
        ELSE IF d.res.kind = "None" THEN DecodedChar("None", None, "", d.q, read)
        ELSE DecodedChar("Some", d.res.char, "", d.q, read \o d.res.bytes)

\* HtmlParser::is_encoding_equal: todo!("check byte equality"), it returns
\* to no caller
is_encoding_equal_returns == FALSE

\* change_encoding that leaves a UTF-16 parser with confidence Tentative
change_encoding_tentative(current, confidence, new_encoding) ==
    IF current \in {"Utf16BE", "Utf16LE"}
    THEN [k |-> "ok", character_encoding |-> current, encoding_confidence |-> "Tentative"]
    ELSE [k |-> "Panic", character_encoding |-> current, encoding_confidence |-> confidence]

\* HtmlParser::change_encoding: the fields it leaves, and k: "ok" when it
\* returns, "Panic" when it reaches is_encoding_equal
change_encoding(current, confidence, new_encoding) ==
    LET after_utf16 == IF new_encoding \in {"Utf16BE", "Utf16LE"} THEN "Utf8" ELSE current
        after_user  == IF new_encoding = "XUserDefined" THEN "Windows1252" ELSE after_utf16
    IN  IF current \in {"Utf16BE", "Utf16LE"}
        THEN [k |-> "ok", character_encoding |-> current, encoding_confidence |-> "Certain"]
        ELSE IF new_encoding = after_user
        THEN [k |-> "ok", character_encoding |-> after_user,
              encoding_confidence |-> "Certain"]
        ELSE IF is_encoding_equal_returns
        THEN [k |-> "ok", character_encoding |-> new_encoding,
              encoding_confidence |-> "Certain"]
        ELSE [k |-> "Panic", character_encoding |-> after_user,
              encoding_confidence |-> confidence]

-----------------------------------------------------------------------------
(* lexer.rs: the lexers.  A lexer is the record                             *)
(*   [kind, html, input, position, peeked]                                  *)
(* kind "String": StringLexer, input the string, position the index in it;  *)
(* kind "Stream": StreamLexer, input what the reader has not yet delivered, *)
(* peeked the lookahead queue, position the characters handed out.          *)
(* html is the text the lexer was built on; no operation changes it.        *)
(* Characters are one-character strings, Option<char>::None is NoChar.      *)
(* Operations return the lexer as they leave it: the lookaheads of          *)
(* StreamLexer read the stream behind a RefCell.                            *)

NoChar == ""

\* StringLexer::new
StringLexer_new(html) ==
    [kind |-> "String", html |-> html, input |-> html, position |-> 0, peeked |-> ""]

\* StreamLexer::new
StreamLexer_new(html) ==
    [kind |-> "Stream", html |-> html, input |-> html, position |-> 0, peeked |-> ""]

\* self.input.chars().nth(i)
chars_nth(s, i) == IF i < Len(s) THEN CharAt(s, i + 1) ELSE NoChar

\* what an operation that yields a character returns
Gave(c, lx) == [c |-> c, lx |-> lx]

\* next_char with a StreamLexer that does not count the characters it takes
\* from its lookahead queue
next_char_uncounted(lx) ==
    IF lx.kind = "String"
    THEN IF chars_nth(lx.input, lx.position) = NoChar THEN Gave(NoChar, lx)
         ELSE Gave(chars_nth(lx.input, lx.position), [lx EXCEPT !.position = @ + 1])
    ELSE IF lx.peeked # ""
    THEN Gave(Head(lx.peeked), [lx EXCEPT !.peeked = Tail(@)])
    ELSE IF lx.input = "" THEN Gave(NoChar, lx)
    ELSE Gave(Head(lx.input), [lx EXCEPT !.input = Tail(@), !.position = @ + 1])

\* StringLexer::next_char and StreamLexer::next_char
next_char(lx) ==
    IF lx.kind = "String"
    THEN IF chars_nth(lx.input, lx.position) = NoChar THEN Gave(NoChar, lx)
         ELSE Gave(chars_nth(lx.input, lx.position), [lx EXCEPT !.position = @ + 1])
    ELSE IF lx.peeked # ""
    THEN Gave(Head(lx.peeked), [lx EXCEPT !.peeked = Tail(@), !.position = @ + 1])
    ELSE IF lx.input = "" THEN Gave(NoChar, lx)
    ELSE Gave(Head(lx.input), [lx EXCEPT !.input = Tail(@), !.position = @ + 1])

\* StringLexer::peek_char and StreamLexer::peek_char
peek_char(lx) ==
    IF lx.kind = "String" THEN Gave(chars_nth(lx.input, lx.position), lx)
    ELSE IF lx.peeked # "" THEN Gave(Head(lx.peeked), lx)
    ELSE IF lx.input = "" THEN Gave(NoChar, lx)
    ELSE Gave(Head(lx.input),
              [lx EXCEPT !.input = Tail(@), !.peeked = Head(lx.input) \o @])

\* peek_char_nth with a StreamLexer that does not keep the characters it has
\* read
peek_char_nth_unbuffered(lx, n) ==
    IF lx.kind = "String" THEN Gave(chars_nth(lx.input, lx.position + n), lx)
    ELSE IF Len(lx.input) <= n THEN Gave(NoChar, [lx EXCEPT !.input = ""])
    ELSE Gave(CharAt(lx.input, n + 1),
              [lx EXCEPT !.input = SubSeq(@, n + 2, Len(@))])

\* StringLexer::peek_char_nth and StreamLexer::peek_char_nth: a read that
\* brings fewer characters than asked for returns None and drops them
peek_char_nth(lx, n) ==
    IF lx.kind = "String" THEN Gave(chars_nth(lx.input, lx.position + n), lx)
    ELSE IF Len(lx.peeked) > n THEN Gave(CharAt(lx.peeked, n + 1), lx)
    ELSE LET chars_to_peek == n + 1 - Len(lx.peeked)
             num_bytes     == Min(chars_to_peek, Len(lx.input))
             rest          == SubSeq(lx.input, num_bytes + 1, Len(lx.input))
             buf           == SubSeq(lx.input, 1, num_bytes)
         IN  IF num_bytes < chars_to_peek
             THEN Gave(NoChar, [lx EXCEPT !.input = rest])
             ELSE Gave(CharAt(lx.peeked \o buf, n + 1),
                       [lx EXCEPT !.input = rest, !.peeked = @ \o buf])

\* Lexer::get_position
get_position(lx) == lx.position

\* what an operation that yields a bool returns
Told(b, lx) == [b |-> b, lx |-> lx]

\* is_some() of a returned character
IsSome(p) == Told(p.c # NoChar, p.lx)

\* Lexer::has_next
has_next(lx) == IsSome(peek_char(lx))

\* Lexer::has_next_nth
has_next_nth(lx, n) == IsSome(peek_char_nth(lx, n))

\* char::is_whitespace and char::is_ascii_whitespace, which agree on the
\* characters a TLA+ string can hold
is_whitespace(c) == c \in {" ", "\t", "\n", "\f", "\r"}

\* char::is_ascii_alphabetic
is_ascii_alphabetic(c) == c # NoChar /\ Ord(c) \in (65..90) \cup (97..122)

\* char::eq_ignore_ascii_case
eq_ignore_ascii_case(a, b) == str_to_ascii_lowercase(a) = str_to_ascii_lowercase(b)

\* is_some_and(|peeked| peeked == c) and its ignore-case form
IsSomeAnd(p, c, ignore_case) ==
    Told(p.c # NoChar /\ IF ignore_case THEN eq_ignore_ascii_case(p.c, c) ELSE p.c = c,
         p.lx)

RECURSIVE matches_from(_, _, _, _)
\* the iterator `all` of peek_matches over the characters from index i on:
\* it stops at the first that does not match
matches_next(m, chars, i, ignore_case) ==
    IF m.b THEN matches_from(m.lx, chars, i + 1, ignore_case) ELSE m

matches_from(lx, chars, i, ignore_case) ==
    IF i >= Len(chars) THEN Told(TRUE, lx)
    ELSE matches_next(IsSomeAnd(peek_char_nth(lx, i), CharAt(chars, i + 1), ignore_case),
                      chars, i, ignore_case)

\* Lexer::peek_matches
peek_matches(lx, chars) == matches_from(lx, chars, 0, FALSE)

\* Lexer::peek_matches_ignore_case
peek_matches_ignore_case(lx, chars) == matches_from(lx, chars, 0, TRUE)

RECURSIVE trim_start(_)
trim_start(s) == IF s # "" /\ is_whitespace(Head(s)) THEN trim_start(Tail(s)) ELSE s

RECURSIVE trim_end(_)
trim_end(s) ==
    IF s # "" /\ is_whitespace(CharAt(s, Len(s)))
    THEN trim_end(SubSeq(s, 1, Len(s) - 1)) ELSE s

\* str::trim
trim(s) == trim_end(trim_start(s))

\* Token::new.  kind is the variant of TokenKind, value the string it holds
Token(kind, value, text, start, end) ==
    [kind |-> kind, value |-> value, text |-> text, start |-> start, end |-> end]

\* Option<Token>::None
NoToken == [kind |-> "None", value |-> "", text |-> "", start |-> 0, end |-> 0]

\* no token: todo!(), an unwrap of None or an assertion aborted the program
Panicked == [kind |-> "Panic", value |-> "", text |-> "", start |-> 0, end |-> 0]

\* what next_token and the expect_ functions return, and the lexer after
Lexed(tok, lx) == [tok |-> tok, lx |-> lx]

\* an expect_ function under way: the lexer, the strings text and value
\* (doctype, comment, tag_name) built so far, and whether it has panicked
Scan(lx) == [lx |-> lx, text |-> "", value |-> "", panic |-> FALSE]

Moved(st, lx) == [st EXCEPT !.lx = lx]

Failed(st, lx) == [st EXCEPT !.lx = lx, !.panic = TRUE]

\* text.push(c) with c = n.c the result of next_char().unwrap(); value.push(c)
\* too when into_value
pushed(st, n, into_value) ==
    IF n.c = NoChar THEN Failed(st, n.lx)
    ELSE [st EXCEPT !.lx = n.lx, !.text = @ \o n.c,
                    !.value = IF into_value THEN @ \o n.c ELSE @]

\* text.push(self.next_char().unwrap())
push_next_char(st) == IF st.panic THEN st ELSE pushed(st, next_char(st.lx), FALSE)

RECURSIVE push_chars(_, _)
\* for _ in 0..n { text.push(self.next_char().unwrap()) }
push_chars(st, n) == IF n = 0 THEN st ELSE push_chars(push_next_char(st), n - 1)

\* assert!(self.peek_matches(chars)) has returned m; then the n pushes
expect_matched(st, m, n) ==
    IF ~m.b THEN Failed(st, m.lx) ELSE push_chars(Moved(st, m.lx), n)

\* assert!(self.peek_matches(chars)), or its ignore-case form, and the loop
\* that pushes the characters matched
expect_chars(st, chars, ignore_case) ==
    IF st.panic THEN st
    ELSE expect_matched(st, matches_from(st.lx, chars, 0, ignore_case), Len(chars))

\* assert_eq!(self.peek_char().unwrap(), c) has peeked p; then the push
expect_char_peeked(st, p, c) ==
    IF p.c # c THEN Failed(st, p.lx) ELSE push_next_char(Moved(st, p.lx))

\* assert_eq!(self.peek_char().unwrap(), c); text.push(self.next_char().unwrap())
expect_char(st, c) ==
    IF st.panic THEN st ELSE expect_char_peeked(st, peek_char(st.lx), c)

RECURSIVE scan_until(_, _, _)
\* the body of the loops `while self.has_next()` after the break test:
\* n is next_char(); in expect_close_tag (tag_name) the character must be a
\* letter or whitespace
scan_char(st, n, stop, tag_name) ==
    IF n.c = NoChar THEN Failed(st, n.lx)
    ELSE IF tag_name /\ ~(is_ascii_alphabetic(n.c) \/ is_whitespace(n.c))
    THEN Failed(st, n.lx)
    ELSE scan_until(pushed(st, n, TRUE), stop, tag_name)

\* if self.peek_matches(stop) { break }, m what peek_matches returned
scan_stop(st, m, stop, tag_name) ==
    IF m.b THEN Moved(st, m.lx) ELSE scan_char(st, next_char(m.lx), stop, tag_name)

\* while self.has_next(), h what has_next returned
scan_more(st, h, stop, tag_name) ==
    IF ~h.b THEN Moved(st, h.lx)
    ELSE scan_stop(st, matches_from(h.lx, stop, 0, FALSE), stop, tag_name)

\* the loops of lines 150..159, 188..197, 224..238 and 266..272
scan_until(st, stop, tag_name) ==
    IF st.panic THEN st ELSE scan_more(st, has_next(st.lx), stop, tag_name)

\* expect_doctype, lines 165..173
doctype_token(st, start) ==
    IF st.panic THEN Lexed(Panicked, st.lx)
    ELSE IF str_to_ascii_lowercase(trim(st.value)) # "html" THEN Lexed(Panicked, st.lx)
    ELSE Lexed(Token("Doctype", str_to_ascii_lowercase(trim(st.value)), st.text,
                     start, get_position(st.lx)),
               st.lx)

\* Lexer::expect_doctype
expect_doctype(lx) ==
    doctype_token(
        expect_char(
            scan_until(expect_char(expect_chars(Scan(lx), "<!DOCTYPE", TRUE), " "),
                       ">", FALSE),
            ">"),
        get_position(lx))

\* expect_comment, lines 205..209
comment_token(st, start) ==
    IF st.panic THEN Lexed(Panicked, st.lx)
    ELSE Lexed(Token("Comment", st.value, st.text, start, get_position(st.lx)), st.lx)

\* Lexer::expect_comment
expect_comment(lx) ==
    comment_token(
        expect_chars(scan_until(expect_chars(Scan(lx), "<!--", FALSE), "-->", FALSE),
                     "-->", FALSE),
        get_position(lx))

\* expect_close_tag, lines 240..249: the assertions on tag_name and the `>`
close_tag_end(st) ==
    IF st.panic THEN st
    ELSE IF st.value = "" \/ trim(st.value) = "" THEN Failed(st, st.lx)
    ELSE IF \E i \in 1..Len(trim(st.value)) : is_whitespace(CharAt(trim(st.value), i))
    THEN Failed(st, st.lx)
    ELSE expect_char(st, ">")

\* expect_close_tag, lines 251..255
close_tag_token(st, start) ==
    IF st.panic THEN Lexed(Panicked, st.lx)
    ELSE Lexed(Token("TagClose", trim(st.value), st.text, start, get_position(st.lx)),
               st.lx)

\* Lexer::expect_close_tag
expect_close_tag(lx) ==
    close_tag_token(
        close_tag_end(scan_until(expect_chars(Scan(lx), "</", FALSE), ">", TRUE)),
        get_position(lx))

\* Lexer::expect_open_or_self_close_tag: todo!()
expect_open_or_self_close_tag(lx) == Lexed(Panicked, lx)

\* expect_text, lines 274..280: p is what peek_char returned to the
\* assertion that it is `>`
text_token(st, p, start) ==
    IF st.panic \/ p.c # ">" THEN Lexed(Panicked, p.lx)
    ELSE Lexed(Token("Text", trim(st.text), st.text, start, get_position(p.lx)), p.lx)

\* expect_text from the assertion on
text_scanned(st, start) == text_token(st, peek_char(st.lx), start)

\* Lexer::expect_text
expect_text(lx) == text_scanned(scan_until(Scan(lx), "<", FALSE), get_position(lx))

RECURSIVE munch_whitespace(_)
\* next_token, lines 123..125, p what peek_char returned
munch_peeked(p) ==
    IF p.c # NoChar /\ is_whitespace(p.c) THEN munch_whitespace(next_char(p.lx).lx)
    ELSE p.lx

munch_whitespace(lx) == munch_peeked(peek_char(lx))

RECURSIVE token_loop(_)
\* next_token, lines 120..128
loop_char(p) ==
    IF p.c = NoChar THEN Lexed(Panicked, p.lx)
    ELSE IF is_whitespace(p.c) THEN token_loop(munch_whitespace(p.lx))
    ELSE expect_text(p.lx)

\* next_token, lines 116..118
loop_open(m) ==
    IF m.b THEN expect_open_or_self_close_tag(m.lx) ELSE loop_char(peek_char(m.lx))

\* next_token, lines 112..114
loop_close(m) ==
    IF m.b THEN expect_close_tag(m.lx) ELSE loop_open(peek_matches(m.lx, "<"))

\* next_token, lines 108..110
loop_doctype(m) ==
    IF m.b THEN expect_doctype(m.lx) ELSE loop_close(peek_matches(m.lx, "</"))

\* next_token, lines 104..106
loop_comment(m) ==
    IF m.b THEN expect_comment(m.lx)
    ELSE loop_doctype(peek_matches_ignore_case(m.lx, "<!DOCTYPE"))

\* next_token, line 103, h what has_next returned; line 131 when it is false
loop_has_next(h) ==
    IF ~h.b THEN Lexed(NoToken, h.lx) ELSE loop_comment(peek_matches(h.lx, "<!--"))

\* next_token, lines 103..131: the loop
token_loop(lx) == loop_has_next(has_next(lx))

\* next_token, lines 95..101, p what peek_char returned
token_start(p) ==
    IF p.c = NoChar
    THEN Lexed(Token("Eof", "", "", get_position(p.lx), get_position(p.lx)), p.lx)
    ELSE token_loop(p.lx)

\* Lexer::next_token
next_token(lx) == token_start(peek_char(lx))

-----------------------------------------------------------------------------
(* Values the variables of a component hold while another component's       *)
(* specification runs.                                                      *)

RegIdle ==
    /\ reg_pc = "idle" /\ reg_label = "" /\ reg_encoding = "unset"
    /\ reg_name = "unset" /\ reg_reparsed = "unset"

IoIdle == source = <<>> /\ stream = <<>> /\ peeked = <<>> /\ bytes_read = 0

ParserIdle ==
    /\ character_encoding = "Utf8" /\ encoding_confidence = "Tentative"
    /\ read_bytes = <<>> /\ parser_pc = "idle" /\ sniffed = NotSniffed /\ decoded = <<>>

DecIdle == dec_pc = "idle" /\ dec_input = <<>> /\ dec_results = <<>>

LexIdle == lexer = <<>> /\ tokens = <<>> /\ lex_pc = "idle" /\ last_token = "unset"

OpIdle == delivered = <<>> /\ last_op = "unset"

ScanIdle ==
    /\ scanner = "unset" /\ scan_pc = "idle" /\ scan_meta = "unset"
    /\ scan_ret = "unset" /\ scan_last = "unset"

-----------------------------------------------------------------------------
(* The registry as a state machine: a label is parsed (from_str), the       *)
(* encoding found is serialized (to_string), and the serialization is       *)
(* parsed again.                                                            *)

\* Strings that are no label in any letter case.
NonLabels == {"", "utf", "utf-9", "utf_8", "utf-8 ", " utf-8", "latin", "iso-8859", "x"}

Capitalized(s) ==
    IF s = "" THEN "" ELSE str_to_ascii_uppercase(CharAt(s, 1)) \o SubSeq(s, 2, Len(s))

RegInputs ==
    TableLabels
        \cup {str_to_ascii_uppercase(l) : l \in TableLabels}
        \cup {Capitalized(l) : l \in TableLabels}
        \cup {to_string(e) : e \in CharacterEncoding}
        \cup NonLabels

RegInit ==
    /\ reg_pc = "start"
    /\ reg_label \in RegInputs
    /\ reg_encoding = "unset" /\ reg_name = "unset" /\ reg_reparsed = "unset"
    /\ IoIdle /\ ParserIdle /\ DecIdle /\ LexIdle /\ OpIdle /\ ScanIdle

\* s.parse::<CharacterEncoding>()
RegFromStr ==
    /\ reg_pc = "start"
    /\ reg_encoding' = from_str(reg_label)
    /\ reg_pc' = "parsed"
    /\ UNCHANGED <<reg_label, reg_name, reg_reparsed, ioVars, parserVars, decVars, lexVars, opVars,
                   scanVars>>

\* encoding.to_string()
RegToString ==
    /\ reg_pc = "parsed"
    /\ reg_encoding # Err
    /\ reg_name' = to_string(reg_encoding)
    /\ reg_pc' = "named"
    /\ UNCHANGED <<reg_label, reg_encoding, reg_reparsed, ioVars, parserVars, decVars, lexVars, opVars,
                   scanVars>>

\* encoding.to_string().parse::<CharacterEncoding>()
RegReparse ==
    /\ reg_pc = "named"
    /\ reg_reparsed' = from_str(reg_name)
    /\ reg_pc' = "reparsed"
    /\ UNCHANGED <<reg_label, reg_encoding, reg_name, ioVars, parserVars, decVars, lexVars, opVars,
                   scanVars>>

RegNext == RegFromStr \/ RegToString \/ RegReparse

RegSpec == RegInit /\ [][RegNext]_vars

-----------------------------------------------------------------------------
(* The documents the parser is run on.                                      *)

BOM_UTF8 == <<239, 187, 191>>

BOM_UTF16BE == <<254, 255>>

BOM_UTF16LE == <<255, 254>>

\* what follows a tag of interest: nothing, or more of the document
Tails == {"", "\n", " <p>x</p>"}

CommentTexts ==
    {"<!--x-->", "<!---->", "<!-- <meta charset=\"utf-8\"> -->",
     "<!--<meta charset=koi8-r>\n-->"}

META_1252 == "<meta charset=\"windows-1252\">"

\* an HTML comment followed by <meta charset="windows-1252">
CommentMetaDocs == {Bytes(c \o META_1252 \o t) : c \in CommentTexts, t \in Tails}

CONTENT_UTF8 == "content=\"text/html; charset=UTF-8\""

HTTP_EQUIV == "http-equiv=\"Content-Type\""

\* meta tags whose charset comes from the content attribute alone, with the
\* pragma before it, after it, and without it
PragmaTags ==
    {"<meta " \o HTTP_EQUIV \o " " \o CONTENT_UTF8 \o ">",
     "<meta " \o CONTENT_UTF8 \o " " \o HTTP_EQUIV \o ">"}

NoPragmaTags ==
    {"<meta " \o CONTENT_UTF8 \o ">",
     "<meta name=\"x\" " \o CONTENT_UTF8 \o ">",
     "<meta http-equiv=\"refresh\" " \o CONTENT_UTF8 \o ">"}

ContentMetaDocs == {Bytes(m \o t) : m \in PragmaTags \cup NoPragmaTags, t \in Tails}

XML_1251 == "<?xml version=\"1.0\" encoding=\"windows-1251\"?><p>x</p>"

\* documents that start with a byte order mark
BomDocs ==
    {BOM_UTF8 \o Bytes(t) : t \in {"", "A", "<p>Hi</p>", META_1252 \o " "}}
        \cup {BOM_UTF8 \o <<195, 169>>, BOM_UTF8 \o BOM_UTF8 \o <<65>>}
        \cup {BOM_UTF16BE, BOM_UTF16BE \o <<0, 65>>, BOM_UTF16LE, BOM_UTF16LE \o <<65, 0>>,
              BOM_UTF16LE \o Bytes(META_1252 \o " "),
              BOM_UTF16BE \o Bytes(META_1252 \o " "),
              BOM_UTF16BE \o Bytes(XML_1251), BOM_UTF16LE \o Bytes(XML_1251)}

OtherDocs ==
    {<<>>, Bytes("Hi"), Bytes("<p>Hi</p>\n"),
     Bytes("<!DOCTYPE html><html><head><meta charset=utf8></head>"),
     Bytes("<meta name=\"viewport\" content=\"width=device-width\"> "),
     Bytes("<meta charset=x-user-defined> "),
     Bytes("<meta charset=utf-16le> "),
     Bytes("<?xml version=\"1.0\" encoding=\"windows-1251\"?><p>x</p>"),
     <<60, 0, 63, 0, 120, 0, 109, 0>>,
     Bytes("caf") \o <<195, 169>> \o Bytes("!"),
     Bytes("a") \o <<195, 40>> \o Bytes("b"),
     Bytes("a") \o <<237, 160, 128>>,
     Bytes("a") \o <<1>> \o Bytes("b")}

\* inputs shorter than 7 bytes that end inside a construct the pre-scan looks
\* for, so that it runs past the end of what is buffered
ShortDocs == {Bytes(s) : s \in {"<", "<p", "</p", "<!--", "<meta", "<meta ", "<?xml", "<p a=", "a"}}

\* documents with no byte order mark and no encoding declaration
NoDeclarationDocs ==
    ShortDocs
        \cup {<<>>, Bytes("Hi"), Bytes("<p>Hi</p>\n"),
              Bytes("caf") \o <<195, 169>> \o Bytes("!"),
              Bytes("a") \o <<1>> \o Bytes("b")}

\* documents that open with an XML declaration naming windows-1251, and have
\* no meta tag
XmlDeclarationDocs ==
    {Bytes(XML_1251),
     Bytes("<?xml version='1.0' encoding='windows-1251'?>\n<p>x</p>\n"),
     Bytes("<?xml encoding = \"windows-1251\" ?><html></html> ")}

\* the codes of the ASCII letters A..Z and a..z
AsciiLetters == (65..90) \cup (97..122)

\* what a tag that is no meta tag goes on with: an attribute whose quoted
\* value reads as a meta tag, then the end of the tag and more text
QUOTED_META == " title=\"a>b <meta charset=koi8-r> \">x "

\* for every letter a start tag and an end tag that begin with it
OtherTagDocs ==
    {<<60, l>> \o Bytes(QUOTED_META) : l \in AsciiLetters}
        \cup {<<60, 47, l>> \o Bytes(QUOTED_META) : l \in AsciiLetters}

\* labels of the encodings a declaration may name but the pre-scan may not
\* return
NormalizedLabels == {"utf-16be", "utf-16le", "utf-16", "x-user-defined"}

\* a meta tag that declares the label l, in its charset attribute or in its
\* content attribute with the pragma
MetaDeclaring(l) ==
    {Bytes("<meta charset=" \o l \o "> "),
     Bytes("<meta http-equiv=\"content-type\" content=\"text/html; charset=" \o l \o "\"> ")}

\* an XML declaration whose encoding label l runs up to the last > of the
\* document
XmlDeclaring(l) == Bytes("<?xml encoding=\"" \o l \o "> ")

NormalizedDocs ==
    UNION {MetaDeclaring(l) \cup {XmlDeclaring(l)} : l \in NormalizedLabels}

\* content values that hold no charset token
NoCharsetContents == {"width=device-width", "text/html", "a", "chars", ""}

\* a meta tag with such a content, then <meta charset="windows-1252">
NoCharsetContentDocs ==
    {Bytes("<meta name=\"viewport\" content=\"" \o c \o "\">" \o META_1252 \o " ") :
        c \in NoCharsetContents}

\* content attributes that name utf-8 after `charset=`: the token unquoted
\* at the end of the value, unquoted with more text after it, and quoted
CharsetForms ==
    {"content=\"text/html; charset=utf-8\"",
     "content=\"charset=utf-8\"",
     "content=\"text/html; charset=utf-8; x=1\"",
     "content=\"text/html; charset=utf-8 x\"",
     "content='text/html; charset=\"utf-8\"'",
     "content=\"text/html; charset='utf-8'\""}

\* a meta tag with the pragma and such a content attribute
CharsetFormDocs ==
    {Bytes("<meta http-equiv=\"content-type\" " \o c \o "> ") : c \in CharsetForms}

CONTENT_UTF8_LOWER == "content=\"text/html; charset=utf-8\""

\* meta tags without the pragma that have both a content attribute naming
\* utf-8 and a charset attribute naming koi8-r, content first
ContentThenCharsetDocs ==
    {Bytes("<meta " \o CONTENT_UTF8_LOWER \o " charset=koi8-r> "),
     Bytes("<meta name=\"x\" " \o CONTENT_UTF8_LOWER \o " charset=\"koi8-r\">\n")}

\* the same with the charset attribute first
CharsetThenContentDocs ==
    {Bytes("<meta charset=koi8-r " \o CONTENT_UTF8_LOWER \o "> ")}

\* a charset attribute that names no encoding, then the content attribute
BadCharsetThenContentDocs ==
    {Bytes("<meta charset=bogus " \o CONTENT_UTF8_LOWER \o "> ")}

PragmaOrderDocs ==
    ContentThenCharsetDocs \cup CharsetThenContentDocs \cup BadCharsetThenContentDocs

\* documents that end with <meta charset="windows-1252"> (their last byte is
\* the > of the tag), and the same documents with more bytes after it
EndingInMetaDocs == {Bytes(p \o META_1252) : p \in {"", "<p>", "<!--x-->"}}

MetaThenMoreDocs == {Bytes(p \o META_1252 \o t) : p \in {"", "<p>", "<!--x-->"}, t \in {" ", "\n<p>"}}

\* n bytes b
Repeat(b, n) == [i \in 1..n |-> b]

\* a document longer than the pre-scan window: an XML declaration that
\* fills the window with control bytes up to its >, then `encoding` in the
\* last 8 bytes the window tests let through, then spaces, `=` and the
\* value past the end of the window
LONG_XML_DOC ==
    Bytes("<?xml") \o Repeat(1, PreScanWindow - 15) \o Bytes(">encoding")
        \o Repeat(32, 4) \o Bytes("=\"utf-8\">")

\* documents longer than the window in which `encoding` does not end at the
\* end of the window: a declaration with its value inside the window, and
\* one `<!` tag that is not closed
LongDocs ==
    {LONG_XML_DOC,
     Bytes("<?xml encoding=\"utf-8\"") \o Repeat(1, PreScanWindow - 32) \o Bytes(">")
         \o Repeat(1, 20),
     Bytes("<!") \o Repeat(1, PreScanWindow + 8)}

\* text with a multi-byte UTF-8 sequence that another byte breaks or the end
\* of the input cuts short, and the same text with the sequence whole
BrokenSequenceDocs ==
    {Bytes("a") \o <<195>> \o Bytes("(b"),
     Bytes("a") \o <<195, 169>> \o Bytes("(b"),
     <<226, 130>> \o Bytes("<p>x"),
     <<226, 130, 172>> \o Bytes("<p>x"),
     Bytes("x") \o <<240, 159, 166>> \o Bytes("y") \o <<195>> \o Bytes("z"),
     Bytes("ab") \o <<195>>,
     Bytes("a") \o <<128>> \o Bytes("b") \o <<255>> \o Bytes("c")}

Documents ==
    CommentMetaDocs \cup ContentMetaDocs \cup BomDocs \cup OtherDocs \cup ShortDocs
        \cup XmlDeclarationDocs \cup OtherTagDocs \cup NormalizedDocs
        \cup NoCharsetContentDocs \cup CharsetFormDocs \cup PragmaOrderDocs
        \cup EndingInMetaDocs \cup MetaThenMoreDocs \cup LongDocs
        \cup BrokenSequenceDocs

\* encodings a caller passes to with_definite_encoding
DefiniteEncodings == {"Utf8", "Windows1252", "Utf16LE"}

-----------------------------------------------------------------------------
(* HtmlParser as a state machine.  parser_pc:                               *)
(*   "constructed"  after new or with_definite_encoding                     *)
(*   "decoding"     in the loop of try_parse, line 67                       *)
(*   "error"        try_parse returned Err (the `?` of line 67)             *)
(*   "todo"         the loop ended and todo!("parse document") was reached  *)
(*   "panic"        another todo!(), an assertion or an overflow check      *)
(*                  aborted the program                                     *)
(*   "hang"         the pre-scan loop that never ends                       *)

Cursor == [stream |-> stream, peeked |-> peeked, bytes_read |-> bytes_read]

SetCursor(q) ==
    /\ stream' = q.stream
    /\ peeked' = q.peeked
    /\ bytes_read' = q.bytes_read

\* HtmlParser::new, HtmlParser::with_definite_encoding
Init ==
    /\ source \in Documents
    /\ stream = source /\ peeked = <<>> /\ bytes_read = 0
    /\ \/ /\ character_encoding = DEFAULT_ENCODING
          /\ encoding_confidence = "Tentative"
       \/ /\ character_encoding \in DefiniteEncodings
          /\ encoding_confidence = "Certain"
    /\ read_bytes = <<>>
    /\ parser_pc = "constructed"
    /\ sniffed = NotSniffed
    /\ decoded = <<>>
    /\ RegIdle /\ DecIdle /\ LexIdle /\ OpIdle /\ ScanIdle

\* try_parse, lines 54..55, with d what determine_encoding returned
SniffedAs(d) ==
    /\ SetCursor(d.q)
    /\ sniffed' = Sniffed(d.k, d.encoding, d.confidence, d.pre)
    /\ IF d.k = "ok"
       THEN /\ character_encoding' = d.encoding
            /\ encoding_confidence' = d.confidence
            /\ parser_pc' = "decoding"
       ELSE /\ UNCHANGED <<character_encoding, encoding_confidence>>
            /\ \/ parser_pc' = "panic"
               \/ d.k = "Overflow" /\ parser_pc' = "hang"

\* try_parse, lines 51..56, when confidence is not Certain
Sniff ==
    /\ parser_pc = "constructed"
    /\ encoding_confidence # "Certain"
    /\ SniffedAs(determine_encoding(Cursor))
    /\ UNCHANGED <<source, read_bytes, decoded, regVars, decVars, lexVars, opVars,
                   scanVars>>

\* try_parse, lines 51..56, when confidence is Certain
SkipSniff ==
    /\ parser_pc = "constructed"
    /\ encoding_confidence = "Certain"
    /\ sniffed' = Sniffed("skipped", character_encoding, encoding_confidence, NoPreScan)
    /\ parser_pc' = "decoding"
    /\ UNCHANGED <<ioVars, character_encoding, encoding_confidence, read_bytes, decoded,
                   regVars, decVars, lexVars, opVars,
                   scanVars>>

\* try_parse, line 67, with d what decode_char returned
DecodedAs(d) ==
    /\ SetCursor(d.q)
    /\ read_bytes' = d.read_bytes
    /\ decoded' = IF d.k = "Some" THEN Append(decoded, d.char) ELSE decoded
    /\ parser_pc' = CASE d.k = "Some"  -> "decoding"
                      [] d.k = "None"  -> "todo"
                      [] d.k = "Err"   -> "error"
                      [] d.k = "Panic" -> "panic"

\* try_parse, line 67: one turn of the loop
DecodeChar ==
    /\ parser_pc = "decoding"
    /\ DecodedAs(decode_char(character_encoding, Cursor, read_bytes))
    /\ UNCHANGED <<source, character_encoding, encoding_confidence, sniffed,
                   regVars, decVars, lexVars, opVars,
                   scanVars>>

\* change_encoding(new_encoding), called while the document is parsed
ChangeEncodingTo(new_encoding) ==
    /\ parser_pc = "decoding"
    /\ LET c == change_encoding(character_encoding, encoding_confidence, new_encoding)
       IN  /\ character_encoding' = c.character_encoding
           /\ encoding_confidence' = c.encoding_confidence
           /\ parser_pc' = IF c.k = "ok" THEN "decoding" ELSE "panic"
    /\ UNCHANGED <<ioVars, read_bytes, sniffed, decoded, regVars, decVars, lexVars, opVars,
                   scanVars>>

ChangeEncoding == \E new_encoding \in CharacterEncoding : ChangeEncodingTo(new_encoding)

Next == Sniff \/ SkipSniff \/ DecodeChar \/ ChangeEncoding

Spec == Init /\ [][Next]_vars

-----------------------------------------------------------------------------
(* Utf8Decoder on a cursor of its own (DecSpec).  dec_pc:                   *)
(*   "ready"  decode may be called                                          *)
(*   "eof"    decode returned Ok(None)                                      *)
(*   "panic"  the assertion of line 352 aborted the program                 *)
(* dec_input is what the cursor held when decode was last called,           *)
(* dec_results the results decode has returned so far.                      *)

\* the UTF-8 form of the code point cp
Utf8Bytes(cp) ==
    IF cp < 128 THEN <<cp>>
    ELSE IF cp < 2048 THEN <<192 + (cp \div 64), 128 + (cp % 64)>>
    ELSE IF cp < 65536
    THEN <<224 + (cp \div 4096), 128 + ((cp \div 64) % 64), 128 + (cp % 64)>>
    ELSE <<240 + (cp \div 262144), 128 + ((cp \div 4096) % 64),
           128 + ((cp \div 64) % 64), 128 + (cp % 64)>>

\* the depth of the lookaheads made before a decode
MaxPeek == 2

\* code points: every one of the one- and two-byte forms, and of the three-
\* and four-byte forms the ends of every range the decoder tells apart and
\* a sample in between
DecCodePoints ==
    (0..2047)
        \cup {2048 + 251 * k : k \in 0..252}
        \cup {2048, 8364, 55295, 55296, 56319, 56320, 57343, 57344, 64975, 64976,
              65007, 65008, 65279, 65533, 65534, 65535}
        \cup {65536 + 4093 * k : k \in 0..256}
        \cup {65536, 129408, 131069, 131070, 131071, 131072, 1114109, 1114110, 1114111}
        \cup (55296..55300) \cup (57340..57343) \cup (64976..65007)
        \cup {plane * 65536 + low : plane \in 0..16, low \in {65533, 65534, 65535}}

\* byte sequences that are no UTF-8 form of a code point: stray continuation
\* bytes, overlong forms, values above U+10FFFF, bytes that start nothing,
\* sequences cut short or broken by another byte
DecRawInputs ==
    {<<>>, <<128>>, <<191, 65>>, <<192, 128>>, <<193, 191>>, <<224, 128, 175>>,
     <<240, 128, 128, 160>>, <<244, 144, 128, 128>>, <<247, 191, 191, 191>>,
     <<248>>, <<255, 65>>, <<195>>, <<226, 130>>, <<240, 159, 166>>, <<195, 40>>,
     <<226, 40, 161>>, <<240, 159, 40, 128>>}

\* a lead byte of a multi-byte form with up to two continuation bytes, fewer
\* than it asks for in most, and then the end of the stream or a byte that
\* continues nothing
DecTruncatedInputs ==
    {<<lead>> \o SubSeq(<<128, 191, 160>>, 1, have) \o after :
        lead \in 192..247, have \in 0..2,
        after \in {<<>>, <<65>>, <<192, 128>>, <<255>>, <<65, 195>>}}

\* what follows the first sequence in the cursor
DecTails == {<<>>, <<65>>, <<195, 169, 10>>, <<128>>, <<237, 160, 128>>}

\* four-byte sequences that carry a value above U+10FFFF
DecAboveRangeInputs ==
    {<<244, b, c, 128>> \o t : b \in 144..191, c \in {128, 191}, t \in {<<>>, <<65>>}}
        \cup {<<a, b, 128, d>> : a \in 245..247, b \in {128, 143, 144, 191},
                                 d \in {128, 191}}

\* two-, three- and four-byte sequences that carry a value a shorter form
\* holds
DecOverlongInputs ==
    {<<a, b>> \o t : a \in 192..193, b \in 128..191, t \in {<<>>, <<65>>}}
        \cup {<<224, b, c>> : b \in 128..159, c \in {128, 175, 191}}
        \cup {<<240, b, c, d>> : b \in 128..143, c \in {128, 191}, d \in {128, 160, 191}}

DecInputs ==
    {Utf8Bytes(cp) \o t : cp \in DecCodePoints, t \in DecTails}
        \cup DecRawInputs \cup DecTruncatedInputs
        \cup DecAboveRangeInputs \cup DecOverlongInputs

\* IoQueue::new over the bytes
DecInit ==
    /\ source \in DecInputs
    /\ stream = source /\ peeked = <<>> /\ bytes_read = 0
    /\ dec_pc = "ready"
    /\ dec_input = <<>>
    /\ dec_results = <<>>
    /\ RegIdle /\ ParserIdle /\ LexIdle /\ OpIdle /\ ScanIdle

\* io_queue.peek_nth(n)
DecPeek ==
    /\ dec_pc = "ready"
    /\ \E n \in 0..MaxPeek : SetCursor(peek_nth(Cursor, n).q)
    /\ UNCHANGED <<source, decVars, regVars, parserVars, lexVars, opVars,
                   scanVars>>

\* Utf8Decoder.decode(&mut io_queue) has returned d
DecReturned(d) ==
    /\ SetCursor(d.q)
    /\ dec_results' = Append(dec_results, d.res)
    /\ dec_pc' = CASE d.res.kind = "None"  -> "eof"
                   [] d.res.kind = "Panic" -> "panic"
                   [] OTHER                -> "ready"

\* Utf8Decoder.decode(&mut io_queue)
DecDecode ==
    /\ dec_pc = "ready"
    /\ dec_input' = peeked \o stream
    /\ DecReturned(decode(Cursor))
    /\ UNCHANGED <<source, regVars, parserVars, lexVars, opVars,
                   scanVars>>

DecNext == DecPeek \/ DecDecode

DecSpec == DecInit /\ [][DecNext]_vars

-----------------------------------------------------------------------------
(* parse_html (lib.rs) over a StringLexer or a StreamLexer (LexSpec).       *)
(* tokens is the queue parse_html collects, last_token its variable token,  *)
(* lex_pc:                                                                  *)
(*   "start"  before line 42                                                *)
(*   "loop"   at the head of the loop of line 43, token holding a token     *)
(*   "done"   the loop has ended: token is None                             *)
(*   "panic"  next_token aborted the program                                *)

\* the tokens the loop is followed for
MaxTokens == 5

\* the characters the lexer tells apart, and one of each other sort
LexAlphabet == {"<", "/", "!", "-", ">", "a", " "}

\* every input of at most three of them
ShortInputs == {a \o b \o c : a, b, c \in LexAlphabet \cup {""}}

LexInputs ==
    ShortInputs \cup
    {"", " ", "\n \t", "<!DOCTYPE html>", "<!DOCTYPE html>\n", "<!doctype HTML >",
     "<!DOCTYPE html><p>Hi</p>", "<!doctype html><b>a b</b>", "<!--x-->",
     "<!-- a --> <!--b-->", "<!---->", "<!--a-b-->", "<!--a--", "<!--x",
     "</p>", "</p >", "</ p>", "</a b>", "</>", "</p", "</1>",
     "<!--x--></div>\n", "<!DOCTYPE html> <!--c--> </html>",
     "<!DOCTYPE html>\n<!-- c -->\n</body>\n</html>\n",
     "Hi</p>", "Hi", "  Hi", "  Hi </p>", "a b<!--c-->", "<p>", "<br/>", "<!DOCTYPEhtml>", "<!DOCTYPE xml>",
     "<!DOCTYPE html", "x>", "a>b"}

\* token before line 42
Unset == [kind |-> "Unset", value |-> "", text |-> "", start |-> 0, end |-> 0]

\* parse_string and parse_stream: the lexer handed to parse_html
LexInit ==
    /\ lexer \in {StringLexer_new(h) : h \in LexInputs}
                    \cup {StreamLexer_new(h) : h \in LexInputs}
    /\ tokens = <<>>
    /\ last_token = Unset
    /\ lex_pc = "start"
    /\ RegIdle /\ IoIdle /\ ParserIdle /\ DecIdle /\ OpIdle /\ ScanIdle

\* token = lexer.next_token() has returned r
TokenReturned(r) ==
    /\ lexer' = r.lx
    /\ last_token' = r.tok
    /\ lex_pc' = CASE r.tok.kind = "Panic" -> "panic"
                   [] r.tok.kind = "None"  -> "done"
                   [] OTHER                -> "loop"

\* parse_html, line 42
FirstToken ==
    /\ lex_pc = "start"
    /\ TokenReturned(next_token(lexer))
    /\ UNCHANGED <<tokens, regVars, ioVars, parserVars, decVars, opVars, scanVars>>

\* parse_html, lines 43..47: one turn of the loop
LoopTurn ==
    /\ lex_pc = "loop"
    /\ Len(tokens) < MaxTokens
    /\ tokens' = Append(tokens, last_token)
    /\ TokenReturned(next_token(lexer))
    /\ UNCHANGED <<regVars, ioVars, parserVars, decVars, opVars, scanVars>>

LexNext == FirstToken \/ LoopTurn

LexSpec == LexInit /\ [][LexNext]_vars

-----------------------------------------------------------------------------
(* IoQueue under a caller that mixes next_byte with the lookaheads          *)
(* (IoSpec).  delivered holds the bytes next_byte has returned; last_op is  *)
(* the last call: the operation, its argument n, what it returned, and the  *)
(* bytes the cursor held (rest) and bytes_read (read) before the call.      *)

IoInputs ==
    {<<>>, <<65>>, <<1, 2>>, <<1, 2, 3>>, <<10, 20, 30, 40>>, <<60, 33, 45, 45, 62>>}

\* patterns handed to contains_bytes
IoPatterns == {<<1>>, <<1, 2>>, <<2, 3>>, <<60, 33, 45>>, <<10, 20, 30, 40, 50>>}

\* byte sets handed to matches_sequence
IoSequences == {<<{1, 60}>>, <<{1, 10}, {2, 20}>>, <<{2, 33}, {3, 45}, {45}>>}

NoOp == [op |-> "none", n |-> 0, ret |-> None, rest |-> <<>>, read |-> 0]

\* IoQueue::new over the bytes
IoInit ==
    /\ source \in IoInputs
    /\ stream = source /\ peeked = <<>> /\ bytes_read = 0
    /\ delivered = <<>>
    /\ last_op = NoOp
    /\ RegIdle /\ ParserIdle /\ DecIdle /\ LexIdle /\ ScanIdle

\* the operation op(n) has returned r.ret and left the cursor r.q
IoReturned(op, n, r) ==
    /\ SetCursor(r.q)
    /\ last_op' = [op |-> op, n |-> n, ret |-> r.ret, rest |-> peeked \o stream,
                   read |-> bytes_read]
    /\ delivered' = IF op = "next_byte" /\ r.ret # None
                    THEN Append(delivered, r.ret) ELSE delivered
    /\ UNCHANGED <<source, regVars, parserVars, decVars, lexVars, scanVars>>

IoNextByte == IoReturned("next_byte", 0, next_byte(Cursor))

IoPeek == IoReturned("peek", 0, IoQueue_peek(Cursor))

IoPeekNth == \E n \in 0..MaxPeek : IoReturned("peek_nth", n, peek_nth(Cursor, n))

IoPeekArr == \E n \in 0..MaxPeek : IoReturned("peek_arr", n, IoQueue_peek_arr(Cursor, n))

IoHasNext == IoReturned("has_next", 0, IoQueue_has_next(Cursor))

IoHasNextNth ==
    \E n \in 0..MaxPeek : IoReturned("has_next_nth", n, IoQueue_has_next_nth(Cursor, n))

IoPeekMax ==
    \E max \in 0..(MaxPeek + 1) :
        IoReturned("peek_max", max, [ret |-> None, q |-> peek_max(Cursor, max)])

IoContainsBytes ==
    \E start_pos \in 0..MaxPeek, bytes \in IoPatterns :
        IoReturned("contains_bytes", start_pos,
                   contains_bytes_from(Cursor, start_pos, bytes, 0))

IoMatchesSequence ==
    \E start_pos \in 0..MaxPeek, sequence \in IoSequences :
        IoReturned("matches_sequence", start_pos,
                   matches_sequence_from(Cursor, start_pos, sequence, 0))

IoNext ==
    \/ IoNextByte \/ IoPeek \/ IoPeekNth \/ IoPeekArr \/ IoHasNext \/ IoHasNextNth
    \/ IoPeekMax \/ IoContainsBytes \/ IoMatchesSequence

IoSpec == IoInit /\ [][IoNext]_vars

-----------------------------------------------------------------------------
(* HtmlPreScanner::pre_scan_byte_stream taken one loop turn at a time       *)
(* (ScanSpec), on the cursor as determine_encoding hands it over.  scan_pc: *)
(*   "new"             HtmlPreScanner::new has returned                     *)
(*   "next_byte"       at the head of the loop 'next_byte                   *)
(*   "attributes"      at the head of the loop 'attributes of a meta tag    *)
(*   "tag_attributes"  at the head of the loop of line 177                  *)
(*   "xml"             _pre_scan_byte_stream has returned None              *)
(*   "returned"        pre_scan_byte_stream has returned scan_ret           *)
(*   "panic"           the program has aborted                              *)
(*   "hang"            max_pos has wrapped and the loop never ends          *)
(* scan_last is [op, from, to, k]: the step taken last, the position before *)
(* and after it, and how the step ended.                                    *)

\* the documents determine_encoding pre-scans: those without a byte order
\* mark
ScanDocs == Documents \ BomDocs

\* the cursor determine_encoding gives to the pre-scan: lines 176..180 and
\* 199 of parser.rs
sniffed_for_bom(io_queue) ==
    peek_max(peek_nth(peek_nth(peek_nth(io_queue, 0).q, 1).q, 2).q, PreScanWindow)

NotReturned == [k |-> "unset", enc |-> NoEncoding]

ScanInitOn(q) ==
    /\ stream = q.stream /\ peeked = q.peeked /\ bytes_read = q.bytes_read
    /\ scanner = HtmlPreScanner_new(q)

\* HtmlPreScanner::new(io_queue), line 205 of parser.rs
ScanInit ==
    /\ source \in ScanDocs
    /\ ScanInitOn(sniffed_for_bom(IoQueue_new(source)))
    /\ scan_pc = "new"
    /\ scan_meta = MetaInit
    /\ scan_ret = NotReturned
    /\ scan_last = [op |-> "new", from |-> 0, to |-> 0, k |-> "ok"]
    /\ RegIdle /\ ParserIdle /\ DecIdle /\ LexIdle /\ OpIdle

\* a step op that ended as k and left the scanner ps, the position in the
\* code pc, the locals of the meta branch meta and the return value ret
ScanTo(op, k, ps, pc, meta, ret) ==
    /\ scan_last' = [op |-> op, from |-> scanner.position, to |-> ps.position, k |-> k]
    /\ scanner' = ps
    /\ scan_pc' = pc
    /\ scan_meta' = meta
    /\ scan_ret' = ret

\* where the code goes on after a step that ended as k
ScanPc(k) ==
    CASE k = "next"           -> "next_byte"
      [] k = "again"          -> scan_pc
      [] k = "attributes"     -> "attributes"
      [] k = "tag_attributes" -> "tag_attributes"
      [] k = "None"           -> "xml"
      [] k = "Some"           -> "returned"
      [] k = "Panic"          -> "panic"

\* a step op of _pre_scan_byte_stream that ended with s
ScanStepped(op, s) ==
    ScanTo(op, s.k, s.ps, ScanPc(s.k), scan_meta,
           IF s.k = "Some" THEN [k |-> "Some", enc |-> s.enc] ELSE scan_ret)

\* _pre_scan_byte_stream, lines 32..50, with max_pos as line 32 computes it
ScanStartAt(max_pos) ==
    IF max_pos < 0
    THEN /\ scan_pc' \in {"panic", "hang"}
         /\ scan_last' = [op |-> "start", from |-> 0, to |-> 0, k |-> "Overflow"]
         /\ UNCHANGED <<scanner, scan_meta, scan_ret>>
    ELSE ScanStepped("start", utf16_xml_declaration([scanner EXCEPT !.max_pos = max_pos]))

\* _pre_scan_byte_stream, lines 32..50
ScanStart ==
    /\ scan_pc = "new"
    /\ ScanStartAt(window_end(Cursor))
    /\ UNCHANGED <<ioVars, regVars, parserVars, decVars, lexVars, opVars>>

\* a turn of the loop 'next_byte, up to its attribute loop if it has one
ScanNextByte ==
    /\ scan_pc = "next_byte"
    /\ ScanStepped("next_byte", next_byte_branch(scanner))
    /\ UNCHANGED <<ioVars, regVars, parserVars, decVars, lexVars, opVars>>

\* a turn r of the loop 'attributes, and lines 131..163 when it was the last
ScanMetaAttributeAs(r) ==
    IF r.k = "again"
    THEN ScanTo("attributes", "again", r.ps, "attributes", r.m, scan_ret)
    ELSE ScanStepped("attributes", meta_branch_end(r))

\* a turn of the loop 'attributes of the meta branch
ScanMetaAttribute ==
    /\ scan_pc = "attributes"
    /\ ScanMetaAttributeAs(meta_attributes_turn(scanner, scan_meta))
    /\ UNCHANGED <<ioVars, regVars, parserVars, decVars, lexVars, opVars>>

\* a turn r of the loop of line 177, and line 188 when it was the last
ScanTagAttributeAs(r) ==
    IF r.k = "again"
    THEN ScanTo("tag_attributes", "again", r.ps, "tag_attributes", scan_meta, scan_ret)
    ELSE ScanStepped("tag_attributes", tag_branch_end(r))

\* a turn of `while self.get_attribute()?.is_some() {}`
ScanTagAttribute ==
    /\ scan_pc = "tag_attributes"
    /\ ScanTagAttributeAs(drain_attributes_turn(scanner))
    /\ UNCHANGED <<ioVars, regVars, parserVars, decVars, lexVars, opVars>>

\* pre_scan_byte_stream, line 27, with r what get_xml_encoding returned
ScanXmlEncodingAs(r) ==
    /\ ScanTo("xml", r.k, r.ps, "returned", scan_meta, [k |-> r.k, enc |-> r.enc])
    /\ SetCursor(peeked_by_scanner(r.ps, Cursor))

\* pre_scan_byte_stream, line 27: self.get_xml_encoding()
ScanXmlEncoding ==
    /\ scan_pc = "xml"
    /\ ScanXmlEncodingAs(get_xml_encoding(scanner))
    /\ UNCHANGED <<source, regVars, parserVars, decVars, lexVars, opVars>>

ScanNext ==
    ScanStart \/ ScanNextByte \/ ScanMetaAttribute \/ ScanTagAttribute \/ ScanXmlEncoding

ScanSpec == ScanInit /\ [][ScanNext]_vars

-----------------------------------------------------------------------------
(* A lexer under a caller that mixes next_char with the lookaheads          *)
(* (CharSpec).  delivered holds the characters next_char has returned;      *)
(* last_op is the call made last, [op, n, ret].                             *)

CharInputs == {"", "a", "ab", "abc", "abcd", "<!--", "</p>"}

\* StringLexer::new and StreamLexer::new over the characters
CharInit ==
    /\ lexer \in {StringLexer_new(h) : h \in CharInputs}
                    \cup {StreamLexer_new(h) : h \in CharInputs}
    /\ tokens = <<>> /\ lex_pc = "idle" /\ last_token = "unset"
    /\ delivered = <<>>
    /\ last_op = [op |-> "new", n |-> 0, ret |-> NoChar]
    /\ RegIdle /\ IoIdle /\ ParserIdle /\ DecIdle /\ ScanIdle

\* the call op(n) has returned r.c and left the lexer r.lx
CharReturned(op, n, r) ==
    /\ lexer' = r.lx
    /\ last_op' = [op |-> op, n |-> n, ret |-> r.c]
    /\ delivered' = IF op = "next_char" /\ r.c # NoChar
                    THEN Append(delivered, r.c) ELSE delivered
    /\ UNCHANGED <<tokens, lex_pc, last_token, regVars, ioVars, parserVars, decVars, scanVars>>

\* the call op(n) has returned the bool r.b and left the lexer r.lx
CharTold(op, n, r) == CharReturned(op, n, [c |-> IF r.b THEN "true" ELSE "false", lx |-> r.lx])

LexerNextChar == CharReturned("next_char", 0, next_char(lexer))

LexerPeekChar == CharReturned("peek_char", 0, peek_char(lexer))

LexerPeekCharNth ==
    \E n \in 0..MaxPeek : CharReturned("peek_char_nth", n, peek_char_nth(lexer, n))

LexerHasNext == CharTold("has_next", 0, has_next(lexer))

LexerHasNextNth ==
    \E n \in 0..MaxPeek : CharTold("has_next_nth", n, has_next_nth(lexer, n))

CharNext ==
    \/ LexerNextChar
    \/ LexerPeekChar
    \/ LexerPeekCharNth
    \/ LexerHasNext
    \/ LexerHasNextNth

CharSpec == CharInit /\ [][CharNext]_vars

-----------------------------------------------------------------------------
(* Properties of IoQueue (IoSpec).                                          *)

Lookaheads ==
    {"peek", "peek_nth", "peek_arr", "peek_max", "has_next", "has_next_nth",
     "contains_bytes", "matches_sequence"}

\* C15: however next_byte is mixed with the lookaheads, lookaheads past the
\* end of the stream included, the bytes next_byte returns are the bytes of
\* the source in source order: next_byte returns the oldest byte the cursor
\* holds, and no byte is lost, duplicated or reordered.
C15_BytesInSourceOrder ==
    /\ delivered \o peeked \o stream = source
    /\ last_op.op = "next_byte"
           => last_op.ret = (IF last_op.rest = <<>> THEN None ELSE Head(last_op.rest))
    /\ (last_op.op = "next_byte" /\ last_op.ret = None) => delivered = source

\* every byte of 01 02 03 delivered, a lookahead having reached past the end
\* of the stream on the way (its short read is not counted in bytes_read)
C15_Witness ==
    /\ source = <<1, 2, 3>>
    /\ delivered = source
    /\ last_op.op = "next_byte"
    /\ bytes_read < Len(source)

RECURSIVE Drop(_, _)
\* the cursor after n calls of next_byte
Drop(q, n) == IF n = 0 THEN q ELSE Drop(next_byte(q).q, n - 1)

\* C16: when peek_nth(n) (or peek, n = 0) has returned a byte b, a repeated
\* peek_nth(n) returns b again without reading the source, and after n
\* further next_byte calls the following next_byte returns b.
C16_PeekedByteDelivered ==
    (last_op.op \in {"peek", "peek_nth"} /\ last_op.ret # None)
        => /\ peek_nth(Cursor, last_op.n) = [ret |-> last_op.ret, q |-> Cursor]
           /\ last_op.op = "peek"
                  => IoQueue_peek(Cursor) = [ret |-> last_op.ret, q |-> Cursor]
           /\ next_byte(Drop(Cursor, last_op.n)).ret = last_op.ret

\* peek_nth(2) has returned the third byte of the five of the source
C16_Witness ==
    /\ source = <<60, 33, 45, 45, 62>>
    /\ delivered = <<60>>
    /\ last_op.op = "peek_nth" /\ last_op.n = 2 /\ last_op.ret = 45
    /\ stream # <<>>

\* C17: peek_arr(n) returns at most n bytes, the next min(n, bytes left)
\* bytes of the stream in order, and consumes none of them.
C17_PeekArrAtMostN ==
    last_op.op = "peek_arr"
        => /\ Len(last_op.ret) <= last_op.n
           /\ last_op.ret = SubSeq(last_op.rest, 1, Min(last_op.n, Len(last_op.rest)))
           /\ peeked \o stream = last_op.rest

\* C18: bytes_read counts the bytes consumed: a next_byte that returns a
\* byte adds one to it, a lookahead leaves it as it is, and it equals the
\* number of bytes next_byte has delivered.
C18_BytesReadCountsConsumed ==
    /\ (last_op.op = "next_byte" /\ last_op.ret # None) => bytes_read = last_op.read + 1
    /\ last_op.op \in Lookaheads => bytes_read = last_op.read
    /\ bytes_read = Len(delivered)

\* C34: in every state of the byte cursor bytes_read is the number of bytes
\* fetched from the source so far: the bytes next_byte has delivered plus
\* peek_len, also after a peek_nth or peek_max that met the end of the stream
\* and buffered fewer bytes than it asked for.
C34_BytesReadCountsFetched ==
    /\ bytes_read = Len(delivered) + peek_len(Cursor)
    /\ bytes_read = Len(source) - Len(stream)

-----------------------------------------------------------------------------
(* Properties of encoding resolution (Spec).                                *)

StartsWith(bytes, prefix) ==
    Len(bytes) >= Len(prefix) /\ SubSeq(bytes, 1, Len(prefix)) = prefix

\* determine_encoding has run and returned or aborted
Resolved == sniffed.k \notin {"no", "skipped"}

\* C19: for every input with no byte order mark and no encoding declaration,
\* the empty input and inputs shorter than 7 bytes among them,
\* determine_encoding returns, and what it returns is (UTF-8, Tentative): the
\* pre-scan running past its window never aborts it.
C19_NoDeclarationDefaults ==
    (source \in NoDeclarationDocs /\ Resolved)
        => /\ sniffed.k = "ok"
           /\ sniffed.encoding = "Utf8"
           /\ sniffed.confidence = "Tentative"

\* C20: an input that starts with FE FF resolves to (UTF-16BE, Certain) and
\* one that starts with FF FE to (UTF-16LE, Certain), also when it is only
\* two bytes long; determine_encoding returns before the pre-scan, so that
\* no meta charset or XML declaration after the mark changes the result,
\* and the parser keeps the pair it was given.
C20_Utf16BomShortCircuits ==
    \A bom \in {BOM_UTF16BE, BOM_UTF16LE} :
        (StartsWith(source, bom) /\ Resolved)
            => /\ sniffed = Sniffed("ok", IF bom = BOM_UTF16BE THEN "Utf16BE" ELSE "Utf16LE",
                                    "Certain", NoPreScan)
               /\ character_encoding = sniffed.encoding
               /\ encoding_confidence = "Certain"

\* FF FE followed by <meta charset="windows-1252"> has resolved to UTF-16LE
C20_Witness ==
    /\ source = BOM_UTF16LE \o Bytes(META_1252 \o " ")
    /\ sniffed.encoding = "Utf16LE"
    /\ sniffed.confidence = "Certain"
    /\ parser_pc = "decoding"

\* C1: every input that starts with EF BB BF resolves to (UTF-8, Certain), and
\* the first character decode_char produces after the resolution is not
\* U+FEFF: the byte order mark is no document content.
C1_BomNotExposed ==
    (StartsWith(source, BOM_UTF8) /\ Resolved)
        => /\ sniffed.k = "ok"
           /\ sniffed.encoding = "Utf8"
           /\ sniffed.confidence = "Certain"
           /\ decoded # <<>> => decoded[1] # 65279

\* C2: an input made of an HTML comment followed by
\* <meta charset="windows-1252"> makes the pre-scan return Windows1252, taken
\* with confidence Tentative, whatever the comment contains.
C2_CommentThenMeta ==
    (source \in {Bytes(c \o META_1252) : c \in CommentTexts} /\ Resolved)
        => /\ sniffed.k = "ok"
           /\ sniffed.pre = [k |-> "Some", enc |-> "Windows1252"]
           /\ sniffed.encoding = "Windows1252"
           /\ sniffed.confidence = "Tentative"

\* C3: a meta tag whose charset comes from its content attribute alone makes
\* the pre-scan return UTF-8 (Tentative) if and only if the tag also has
\* http-equiv = content-type, in either attribute order; without it the
\* pre-scan goes on after the tag and, nothing else declaring an encoding,
\* returns none.
C3_ContentNeedsPragma ==
    \A m \in PragmaTags \cup NoPragmaTags, t \in Tails :
        (source = Bytes(m \o t) /\ Resolved)
            => /\ sniffed.k = "ok"
               /\ sniffed.confidence = "Tentative"
               /\ (sniffed.pre = [k |-> "Some", enc |-> "Utf8"]) <=> (m \in PragmaTags)
               /\ (m \in NoPragmaTags) => (sniffed.pre.k = "None")

\* C4: when the encoding is Windows1252 with confidence Tentative and
\* change_encoding is called with UTF-16LE, the parser ends with encoding
\* UTF-8 and confidence Certain.
C4_ResniffUtf16 ==
    [][(/\ character_encoding = "Windows1252"
        /\ encoding_confidence = "Tentative"
        /\ ChangeEncodingTo("Utf16LE"))
            => (/\ parser_pc' = "decoding"
                /\ character_encoding' = "Utf8"
                /\ encoding_confidence' = "Certain")]_vars

\* C14: for every encoding of the registry, the one the resolver selected
\* included, getting the decoder and decoding a character returns a value of
\* the decode contract (a character, the end of the stream or an error) and
\* never aborts the program.
C14_EveryEncodingDecodes ==
    [][(character_encoding \in CharacterEncoding /\ DecodeChar)
           => parser_pc' \in {"decoding", "todo", "error"}]_vars

\* C21: a document that has no meta charset and starts with an XML
\* declaration whose encoding pseudo-attribute is windows-1251, in double or
\* in single quotes, makes the pre-scan return Windows1251: the label is read
\* up to the quote that closes it, whatever markup follows the declaration.
C21_XmlEncodingDeclaration ==
    (source \in XmlDeclarationDocs /\ Resolved)
        => /\ sniffed.k = "ok"
           /\ sniffed.pre = [k |-> "Some", enc |-> "Windows1251"]
           /\ sniffed.encoding = "Windows1251"
           /\ sniffed.confidence = "Tentative"

\* C22: for every ASCII letter, a start tag or an end tag that begins with it
\* and is no meta tag is skipped with its attributes: a quoted attribute
\* value that reads <meta charset=koi8-r> is not inspected, and the pre-scan
\* finds no encoding in the document.
C22_OtherTagsSkipped ==
    (source \in OtherTagDocs /\ Resolved)
        => /\ sniffed.k = "ok"
           /\ sniffed.pre = [k |-> "None", enc |-> NoEncoding]

\* C23: an encoding the pre-scan takes from a declaration, a meta tag or an
\* XML encoding declaration, is normalized before it is returned: a
\* declared UTF-16BE or UTF-16LE is returned as Utf8 and a declared
\* x-user-defined as Windows1252, never as it was declared.
C23_DeclaredEncodingNormalized ==
    \A l \in NormalizedLabels :
        (source \in MetaDeclaring(l) \cup {XmlDeclaring(l)} /\ Resolved)
            => /\ sniffed.k = "ok"
               /\ sniffed.pre.k = "Some"
               /\ sniffed.pre.enc = IF l = "x-user-defined" THEN "Windows1252" ELSE "Utf8"
               /\ sniffed.encoding = sniffed.pre.enc

\* C24: a meta tag whose content attribute holds no charset token, a value
\* shorter than 7 characters included, gives no result and does not abort
\* the pre-scan, which goes on after the tag and returns the charset of the
\* meta tag that follows.
C24_ContentWithoutCharset ==
    (source \in NoCharsetContentDocs /\ Resolved)
        => /\ sniffed.k = "ok"
           /\ sniffed.pre = [k |-> "Some", enc |-> "Windows1252"]

\* C25: extract_encoding_from_meta returns the encoding named after
\* `charset=` in a content value for every form of the token (unquoted at
\* the end of the value, unquoted before `;` or whitespace and more text,
\* in double or in single quotes) and aborts on none: a meta tag with the
\* pragma and such a content makes the pre-scan return Utf8.
C25_CharsetTokenForms ==
    (source \in CharsetFormDocs /\ Resolved)
        => /\ sniffed.k = "ok"
           /\ sniffed.pre = [k |-> "Some", enc |-> "Utf8"]

\* C29 as stated: need_pragma is set by the first of the charset and content
\* attributes of a meta tag, so that a content attribute carrying charset=
\* followed by a charset attribute leaves need_pragma true, and without
\* http-equiv=content-type the tag yields no result.
C29_FirstAttributeSetsNeedPragma ==
    (source \in ContentThenCharsetDocs /\ Resolved)
        => /\ sniffed.k = "ok"
           /\ sniffed.pre = [k |-> "None", enc |-> NoEncoding]

\* C29, amended: a charset attribute sets need_pragma to false whenever it is
\* seen, and a content attribute carrying charset= sets it to true only
\* while no charset has been found.  In either order of the two attributes
\* the tag yields the encoding of the charset attribute without
\* http-equiv=content-type; when the charset attribute names no encoding and
\* the content attribute follows it, need_pragma is true and the tag yields
\* no result.
C29_CharsetAttributeClearsNeedPragma ==
    /\ (source \in ContentThenCharsetDocs \cup CharsetThenContentDocs /\ Resolved)
           => /\ sniffed.k = "ok"
              /\ sniffed.pre = [k |-> "Some", enc |-> "KOI8R"]
    /\ (source \in BadCharsetThenContentDocs /\ Resolved)
           => /\ sniffed.k = "ok"
              /\ sniffed.pre = [k |-> "None", enc |-> NoEncoding]

\* content with charset=utf-8, then charset=koi8-r, no pragma: KOI8R
C29_Witness ==
    /\ source = Bytes("<meta " \o CONTENT_UTF8_LOWER \o " charset=koi8-r> ")
    /\ sniffed.k = "ok"
    /\ sniffed.encoding = "KOI8R"

\* C28: the pre-scan examines every byte of its window, the last one
\* included: a document shorter than the window whose last byte is the > of
\* <meta charset="windows-1252"> gives the result it gives when more bytes
\* follow that >, Windows1252.
C28_LastByteExamined ==
    (source \in EndingInMetaDocs \cup MetaThenMoreDocs /\ Resolved)
        => /\ sniffed.k = "ok"
           /\ sniffed.pre = [k |-> "Some", enc |-> "Windows1252"]

\* C27: the pre-scan, its XML-declaration fallback included, inspects only
\* the first 1024 bytes: when determine_encoding has returned, the cursor
\* has buffered no byte at an offset of 1024 or more and has read no more of
\* the source than peek_max(1024) had read before the pre-scan.
C27_PreScanStaysInWindow ==
    (Resolved /\ parser_pc = "decoding" /\ decoded = <<>>)
        => /\ Len(peeked) <= PreScanWindow
           /\ bytes_read <= PreScanWindow
           /\ peeked \o stream = source

\* the sequence a is a start of the sequence b
IsPrefix(a, b) == Len(a) <= Len(b) /\ a = SubSeq(b, 1, Len(a))

IsAscii(b) == b < 128

\* the ASCII bytes decode_char is to return as characters: every one but the
\* controls the decoder rejects
IsAllowedAscii(b) == b < 128 /\ ~IsRejectedControl(b)

\* C37: lossy decoding loses no valid character: when a byte that is no
\* continuation byte breaks a multi-byte UTF-8 sequence, decode_char returns
\* U+FFFD for the broken sequence and decodes the breaking byte as the start
\* of the next character, so the ASCII characters decoded are the allowed
\* ASCII bytes of the input in order: a start of them while the loop of
\* try_parse runs, all of them when it has ended.
C37_LossyDecodingKeepsAscii ==
    (character_encoding = "Utf8" /\ parser_pc \in {"decoding", "todo"})
        => /\ IsPrefix(SelectSeq(decoded, IsAscii), SelectSeq(source, IsAllowedAscii))
           /\ parser_pc = "todo"
                 => SelectSeq(decoded, IsAscii) = SelectSeq(source, IsAllowedAscii)

\* C38: after any sequence of decode_char calls read_bytes holds exactly the
\* bytes removed from the cursor so far, in order, those of the sequences
\* replaced by U+FFFD included.
C38_ReadBytesLogsRemoved ==
    parser_pc \in {"decoding", "todo"} => read_bytes \o peeked \o stream = source

\* the input starts with one of the byte order marks determine_encoding
\* looks for
HasBom ==
    \/ StartsWith(source, BOM_UTF8)
    \/ StartsWith(source, BOM_UTF16BE)
    \/ StartsWith(source, BOM_UTF16LE)

\* what holds of the confidence in every state: it is Tentative or Certain,
\* and what determine_encoding returned is Certain exactly when a byte order
\* mark matched
ConfidenceInEveryState ==
    /\ encoding_confidence \in {"Tentative", "Certain"}
    /\ (Resolved /\ sniffed.k = "ok") => (sniffed.confidence = "Certain" <=> HasBom)

\* what holds of the confidence in every step: Certain stays Certain, and the
\* sniffing step of try_parse leaves the encoding and the confidence of a
\* parser built with Certain confidence as they are
ConfidenceInEveryStep ==
    /\ encoding_confidence = "Certain" => encoding_confidence' = "Certain"
    /\ (parser_pc = "constructed" /\ encoding_confidence = "Certain")
          => /\ character_encoding' = character_encoding
             /\ parser_pc' = "decoding"
             /\ sniffed'.k = "skipped"

\* C39: confidence only moves from Tentative to Certain: over construction,
\* the sniffing of try_parse and change_encoding calls it never goes from
\* Certain back to Tentative and is never Irrelevant; determine_encoding
\* returns Certain exactly when a byte order mark matched; and a parser built
\* by with_definite_encoding keeps its encoding and Certain confidence
\* through the sniffing step of try_parse.
C39_ConfidenceOnlyRises == []ConfidenceInEveryState /\ [][ConfidenceInEveryStep]_vars

\* determine_encoding returned Tentative and a change_encoding call has made
\* the confidence Certain
C39_Witness ==
    /\ sniffed.k = "ok"
    /\ sniffed.confidence = "Tentative"
    /\ encoding_confidence = "Certain"
    /\ parser_pc = "decoding"

-----------------------------------------------------------------------------
(* Properties of the encoding registry (RegSpec).                           *)

\* the encoding the label table documents for a label in any letter case:
\* the table's labels are lower-case
DocumentedEncoding(label) == from_str(str_to_ascii_lowercase(label))

\* C8: from_str returns the documented encoding for every label of the table
\* in every upper/lower-case variation, and the failure value for every
\* string that is not in the table.
C8_CaseInsensitiveLabels ==
    reg_pc # "start" => reg_encoding = DocumentedEncoding(reg_label)

\* C9: for every encoding e and every label that denotes e, the name
\* to_string gives e included, to_string(parse(label)) is the name of e; and
\* distinct encodings have distinct names.
C9_CanonicalNameRoundTrip ==
    /\ reg_pc \in {"named", "reparsed"} => reg_name = to_string(DocumentedEncoding(reg_label))
    /\ reg_pc = "reparsed" => (reg_reparsed # Err /\ to_string(reg_reparsed) = reg_name)
    /\ \A e1, e2 \in CharacterEncoding : to_string(e1) = to_string(e2) => e1 = e2

-----------------------------------------------------------------------------
(* Properties of the UTF-8 decoder (DecSpec).                               *)

\* the length of the UTF-8 form a lead byte announces, 0 for a byte that
\* leads none
FormLength(lead) ==
    IF lead < 128 THEN 1
    ELSE IF lead \in 194..223 THEN 2
    ELSE IF lead \in 224..239 THEN 3
    ELSE IF lead \in 240..244 THEN 4
    ELSE 0

\* the value the bits of a UTF-8 form carry
FormValue(form) ==
    CASE Len(form) = 1 -> form[1]
      [] Len(form) = 2 -> (form[1] - 192) * 64 + (form[2] - 128)
      [] Len(form) = 3 -> (form[1] - 224) * 4096 + (form[2] - 128) * 64 + (form[3] - 128)
      [] Len(form) = 4 -> (form[1] - 240) * 262144 + (form[2] - 128) * 4096
                              + (form[3] - 128) * 64 + (form[4] - 128)

\* a Unicode scalar value
IsScalar(cp) == (0 <= cp /\ cp <= 55295) \/ (57344 <= cp /\ cp <= 1114111)

\* the scalar whose UTF-8 form the byte sequence starts with, None when it
\* starts with no valid form: a form is valid when it is the UTF-8 form of a
\* scalar
LeadingScalar(bytes) ==
    IF bytes = <<>> THEN None
    ELSE LET n == FormLength(bytes[1])
         IN  IF n = 0 \/ Len(bytes) < n THEN None
             ELSE IF \E i \in 2..n : bytes[i] \notin 128..191 THEN None
             ELSE IF ~IsScalar(FormValue(SubSeq(bytes, 1, n))) THEN None
             ELSE IF Utf8Bytes(FormValue(SubSeq(bytes, 1, n))) # SubSeq(bytes, 1, n)
             THEN None
             ELSE FormValue(SubSeq(bytes, 1, n))

\* the scalars the decoder is to return: no noncharacter and no C0 or C1
\* control other than tab, LF, FF and CR
IsAllowedScalar(cp) ==
    /\ IsScalar(cp)
    /\ cp \notin 64976..65007
    /\ cp % 65536 \notin {65534, 65535}
    /\ ~(cp <= 31 \/ (127 <= cp /\ cp <= 159)) \/ cp \in {9, 10, 12, 13}

\* what the last call of decode returned
LastDecoded == dec_results[Len(dec_results)]

\* the bytes the cursor still holds
Remaining == peeked \o stream

\* C10: when the cursor starts with a valid UTF-8 form of an allowed scalar,
\* decode returns that scalar with exactly the bytes of the form, which it
\* removed from the cursor, leaves every following byte in the cursor, and
\* decoding the returned bytes alone gives the same scalar.
C10_DecodeValidScalar ==
    (dec_results # <<>> /\ LeadingScalar(dec_input) # None
        /\ IsAllowedScalar(LeadingScalar(dec_input)))
        => /\ LastDecoded = DecSome(LeadingScalar(dec_input),
                                    Utf8Bytes(LeadingScalar(dec_input)))
           /\ LastDecoded.bytes \o Remaining = dec_input
           /\ decode(IoQueue_new(LastDecoded.bytes)).res = LastDecoded

\* decode has returned the scalar cp from a cursor that starts with its
\* UTF-8 form and holds more bytes after it
C10_Decoded(cp) ==
    /\ dec_results # <<>>
    /\ LeadingScalar(dec_input) = cp
    /\ IsAllowedScalar(cp)
    /\ LastDecoded.kind = "Some"
    /\ Remaining # <<>>

\* U+1F980 from a four-byte form, then U+00E9 from the two bytes after it
C10_Witness ==
    /\ Len(dec_results) = 2
    /\ dec_results[1] = DecSome(129408, <<240, 159, 166, 128>>)
    /\ C10_Decoded(233)

\* the number of bytes of the form a lead byte announces by its high bits, 0
\* for a byte that leads no form
SequenceLength(lead) ==
    IF lead < 128 THEN 1
    ELSE IF lead \in 192..223 THEN 2
    ELSE IF lead \in 224..239 THEN 3
    ELSE IF lead \in 240..247 THEN 4
    ELSE 0

\* how many of the need bytes after the first byte are there and are of the
\* form 10xxxxxx, counted up to the first that is not
ContinuationRun(bytes, need) ==
    Cardinality({i \in 1..need :
        \A j \in 1..i : j + 1 <= Len(bytes) /\ bytes[j + 1] \in 128..191})

\* C11: for a lead byte of a multi-byte form followed by fewer continuation
\* bytes than it asks for, decode returns UnexpectedEof when the stream ends
\* before the form is complete and InvalidData when the byte that follows is
\* not of the form 10xxxxxx; it returns no scalar.
C11_TruncatedSequence ==
    (dec_results # <<>> /\ dec_input # <<>> /\ dec_input[1] \in 192..247
        /\ ContinuationRun(dec_input, SequenceLength(dec_input[1]) - 1)
               < SequenceLength(dec_input[1]) - 1)
        => /\ LastDecoded.kind # "Some"
           /\ LastDecoded =
                  IF Len(dec_input)
                         = 1 + ContinuationRun(dec_input, SequenceLength(dec_input[1]) - 1)
                  THEN DecErr("UnexpectedEof")
                  ELSE DecErr("InvalidData")

\* E0 80 41 gave InvalidData, then C3 at the end of the stream UnexpectedEof
C11_Witness ==
    /\ Len(dec_results) = 2
    /\ source = <<224, 128, 65, 195>>
    /\ dec_results[1] = DecErr("InvalidData")
    /\ dec_input = <<195>>
    /\ LastDecoded = DecErr("UnexpectedEof")

\* the byte sequence starts with a lead byte and all the continuation bytes
\* the lead byte asks for
IsWellFormed(bytes) ==
    /\ bytes # <<>>
    /\ SequenceLength(bytes[1]) > 0
    /\ ContinuationRun(bytes, SequenceLength(bytes[1]) - 1) = SequenceLength(bytes[1]) - 1

\* the value the data bits of the first form of a well-formed sequence carry
CarriedValue(bytes) == FormValue(SubSeq(bytes, 1, SequenceLength(bytes[1])))

Surrogates == 55296..57343

\* U+FDD0..U+FDEF and the last two code points of each of the 17 planes
Noncharacters ==
    (64976..65007) \cup {plane * 65536 + low : plane \in 0..16, low \in {65534, 65535}}

\* C12: decode never returns a scalar that is a surrogate (U+D800..U+DFFF) or
\* one of the 66 noncharacters; a byte sequence that carries a surrogate gives
\* UnexpectedSurrogate, one that carries a noncharacter UnexpectedNonCharacter.
C12_NoSurrogateNoNonCharacter ==
    /\ Cardinality(Noncharacters) = 66
    /\ \A i \in DOMAIN dec_results :
           dec_results[i].kind = "Some"
               => dec_results[i].char \notin Surrogates \cup Noncharacters
    /\ (dec_results # <<>> /\ IsWellFormed(dec_input))
           => /\ CarriedValue(dec_input) \in Surrogates
                  => LastDecoded = DecErr("UnexpectedSurrogate")
              /\ CarriedValue(dec_input) \in Noncharacters
                  => LastDecoded = DecErr("UnexpectedNonCharacter")

\* U+10FFFF gave UnexpectedNonCharacter, then U+D800 UnexpectedSurrogate
C12_Witness ==
    /\ source = <<244, 143, 191, 191, 237, 160, 128>>
    /\ dec_results = <<DecErr("UnexpectedNonCharacter"), DecErr("UnexpectedSurrogate")>>
    /\ dec_input = <<237, 160, 128>>

\* the C0 and C1 control codes other than tab, LF, FF and CR
DisallowedControls == ((0..31) \cup (127..159)) \ {9, 10, 12, 13}

\* C13: decode returns UnexpectedControl for every decoded scalar that is a
\* C0 or C1 control code other than ASCII whitespace, and never returns such
\* a scalar, U+0000 included.
C13_ControlsRejected ==
    /\ \A i \in DOMAIN dec_results :
           dec_results[i].kind = "Some" => dec_results[i].char \notin DisallowedControls
    /\ (dec_results # <<>> /\ IsWellFormed(dec_input)
            /\ CarriedValue(dec_input) \in DisallowedControls)
           => LastDecoded = DecErr("UnexpectedControl")

\* C35: the assertion code_point < 0x10FFFF of decode holds on every input
\* that reaches it: decode never aborts, and a four-byte sequence that
\* carries a value above U+10FFFF gives InvalidData.
C35_RangeAssertionHolds ==
    /\ dec_pc # "panic"
    /\ (dec_results # <<>> /\ IsWellFormed(dec_input)
            /\ SequenceLength(dec_input[1]) = 4 /\ CarriedValue(dec_input) > 1114111)
           => LastDecoded = DecErr("InvalidData")

\* the first form of a well-formed sequence carries a value that a shorter
\* form holds
IsOverlong(bytes) ==
    /\ IsWellFormed(bytes)
    /\ CarriedValue(bytes) <= 1114111
    /\ Len(Utf8Bytes(CarriedValue(bytes))) < SequenceLength(bytes[1])

\* C36: decode returns InvalidData for every overlong encoding, a two-,
\* three- or four-byte sequence whose value fits a shorter form, and never
\* returns a scalar for bytes that are not its shortest form.
C36_OverlongRejected ==
    /\ (dec_results # <<>> /\ IsOverlong(dec_input))
           => LastDecoded = DecErr("InvalidData")
    /\ \A i \in DOMAIN dec_results :
           dec_results[i].kind = "Some"
               => dec_results[i].bytes = Utf8Bytes(dec_results[i].char)

-----------------------------------------------------------------------------
(* Properties of the lexer and of parse_html (LexSpec).                     *)

\* the tokens next_token has returned so far, in order
Produced ==
    tokens \o (IF last_token.kind \in {"Unset", "None", "Panic"} THEN <<>>
               ELSE <<last_token>>)

KindsAndValues(ts) == [i \in DOMAIN ts |-> <<ts[i].kind, ts[i].value>>]

\* inputs of the shape doctype, open tag, text, close tag
DoctypeTagTextInputs ==
    {[html |-> "<!DOCTYPE html><p>Hi</p>", name |-> "p", text |-> "Hi"],
     [html |-> "<!doctype html><b>a b</b>", name |-> "b", text |-> "a b"]}

ExpectedTokens(d) ==
    <<<<"Doctype", "html">>, <<"TagOpen", d.name>>, <<"Text", d.text>>,
      <<"TagClose", d.name>>, <<"Eof", "">>>>

\* C5: on <!DOCTYPE html><p>Hi</p>, and on an input of the same shape,
\* repeated next_token calls give Doctype("html"), TagOpen p, Text("Hi"),
\* TagClose("p"), Eof, one token per construct in source order: no call
\* aborts, what has been returned is always the start of that sequence, and
\* by the time the fifth token is collected it is all of it.
C5_TokenSequence ==
    \A d \in DoctypeTagTextInputs :
        lexer.html = d.html
            => /\ lex_pc # "panic"
               /\ IsPrefix(KindsAndValues(Produced), ExpectedTokens(d))
               /\ lex_pc = "done" => KindsAndValues(Produced) = ExpectedTokens(d)

\* C6: the tokens next_token returns end with exactly one Eof, whose span is
\* empty at the final position, and every call after that Eof returns no
\* token: an Eof is the last token returned, the call after it returns None,
\* and when next_token returns None the token before was the Eof.
C6_SingleEof ==
    /\ \A i \in DOMAIN Produced :
           Produced[i].kind = "Eof"
               => /\ i = Len(Produced)
                  /\ Produced[i].start = Len(lexer.html)
                  /\ Produced[i].end = Len(lexer.html)
    /\ (tokens # <<>> /\ tokens[Len(tokens)].kind = "Eof") => last_token.kind = "None"
    /\ last_token.kind = "None"
           => (Produced # <<>> /\ Produced[Len(Produced)].kind = "Eof")

\* C7: the token loop of parse_html terminates.  The loop's state is the
\* lexer and the variable token, and next_token is a function of the lexer:
\* a loop that terminates never ends a turn in the state the turn began in.
C7_LoopTerminates ==
    [][LoopTurn => <<lexer, last_token>>' # <<lexer, last_token>>]_vars

-----------------------------------------------------------------------------
(* Properties of the pre-scan loop (ScanSpec)                               *)

\* a step that goes on with a loop: a turn of 'next_byte that neither
\* returned nor aborted, or a get_attribute call that returned an attribute
ScanGoesOn ==
    /\ scan_last.op \in {"next_byte", "attributes", "tag_attributes"}
    /\ scan_last.k \in {"next", "again", "attributes", "tag_attributes"}

\* C26: the pre-scan terminates on every finite byte window: it never enters
\* a loop that does not end, every loop turn either advances position or
\* returns, and every get_attribute call that returns an attribute leaves
\* position strictly greater than it was at the call.
C26_PreScanTerminates ==
    /\ scan_pc # "hang"
    /\ ScanGoesOn => scan_last.to > scan_last.from
    /\ scan_last.to >= scan_last.from


\* inputs whose first character that is not whitespace is not `<`, with the
\* trimmed characters up to the next `<`
TextInputs ==
    {[html |-> "Hi</p>", text |-> "Hi"],
     [html |-> "  Hi </p>", text |-> "Hi"],
     [html |-> "a b<!--c-->", text |-> "a b"]}

\* C30: when next_token meets a character that is neither whitespace nor
\* `<`, it returns a Text token holding the characters up to the next `<`,
\* trimmed, and leaves that `<` as the next character of the lexer; it does
\* not abort on an input such as Hi</p>.
C30_TextUntilNextTag ==
    \A d \in TextInputs :
        (lexer.html = d.html /\ lex_pc # "start" /\ tokens = <<>>)
            => /\ lex_pc # "panic"
               /\ last_token.kind = "Text"
               /\ last_token.value = d.text
               /\ peek_char(lexer).c = "<"


\* C31: every token next_token returns has a span with start <= end whose
\* length end - start is the number of characters of the token's raw text,
\* and each token starts at or after the end of the token before it.
C31_SpansCoverText ==
    /\ \A i \in DOMAIN Produced :
          /\ Produced[i].start <= Produced[i].end
          /\ Produced[i].end - Produced[i].start = Len(Produced[i].text)
    /\ \A i \in DOMAIN Produced :
          i > 1 => Produced[i].start >= Produced[i - 1].end

\* three tokens returned, the second after skipped whitespace, the third an
\* Eof with an empty span
C31_Witness ==
    /\ Len(Produced) >= 3
    /\ Produced[1].end > Produced[1].start
    /\ Produced[2].start > Produced[1].end
    /\ Produced[Len(Produced)].kind = "Eof"
    /\ lexer.kind = "Stream"


\* the next_token calls parse_html has made
CallsMade == IF lex_pc = "start" THEN 0 ELSE Len(tokens) + 1

RECURSIVE Calls(_, _)
\* what n next_token calls on the lexer lx return, each with the position
\* the lexer reports after it; a call that aborts is the last
CallsAfter(r, n) ==
    <<[tok |-> r.tok, position |-> get_position(r.lx)]>>
        \o (IF r.tok.kind = "Panic" THEN <<>> ELSE Calls(r.lx, n - 1))

Calls(lx, n) == IF n = 0 THEN <<>> ELSE CallsAfter(next_token(lx), n)

\* the calls made so far returned what the calls cs return
SameCalls(cs) ==
    /\ Len(cs) = CallsMade
    /\ \A i \in DOMAIN tokens : cs[i].tok = tokens[i]
    /\ CallsMade > 0
          => /\ cs[CallsMade].tok = last_token
             /\ last_token.kind # "Panic" => cs[CallsMade].position = get_position(lexer)

\* C32: on every ASCII input a StreamLexer and a StringLexer driven by the
\* same next_token calls return the same tokens, with the same kinds, texts
\* and spans, and report the same position after each call.
C32_StreamLexerAsStringLexer ==
    lexer.kind = "Stream" => SameCalls(Calls(StringLexer_new(lexer.html), CallsMade))

\* a StreamLexer that has returned a doctype, a comment and a close tag
C32_Witness ==
    /\ lexer.kind = "Stream"
    /\ Len(Produced) >= 3
    /\ Produced[1].kind = "Doctype"
    /\ Produced[2].kind = "Comment"
    /\ Produced[3].kind = "TagClose"
    /\ get_position(lexer) = Produced[3].end

-----------------------------------------------------------------------------
(* Properties of the lexers' character source (CharSpec)                    *)

\* the characters of the string s, in order
CharsOf(s) == [i \in 1..Len(s) |-> CharAt(s, i)]

\* C33: the lookahead of StreamLexer is non-destructive: whatever peek_char,
\* peek_char_nth(n) and has_next_nth(n) calls come between the next_char
\* calls, a peek_char_nth(n) past the end of the input included, next_char
\* returns every character of the source once and in source order: what it
\* has returned is the start of the source, and all of it when it returns
\* None.
C33_LookaheadNonDestructive ==
    lexer.kind = "Stream"
        => /\ IsPrefix(delivered, CharsOf(lexer.html))
           /\ (last_op.op = "next_char" /\ last_op.ret = NoChar)
                 => delivered = CharsOf(lexer.html)

====
